---- MODULE Spec2Model ----
(***************************************************************************)
(* Durability core of MongoLite / IronBase: the append-only data file, the *)
(* write-ahead log, the transaction registry of DatabaseCore and the       *)
(* commit / rollback / recovery sequences of StorageEngine.                *)
(*                                                                         *)
(* Files are modelled as sequences.  Every file has a durable length (the  *)
(* part that an fsync has covered); a crash keeps the durable part and an  *)
(* arbitrary part of what was written after it.  Fields named uid / src    *)
(* are history fields: they record which transaction of which process      *)
(* lifetime produced a frame or a record and are never read by an action.  *)
(***************************************************************************)
EXTENDS Integers, Sequences, FiniteSets, TLC

(* ------------------------------ bounds -------------------------------- *)
MaxTx == 2
MaxOps == 1
MaxEpoch == 3
MaxBegun == 2
MaxData == 4
MaxWal == 8
NumIds == 1
MaxChanges == 2
MaxClones == 1
MaxIndexedTx == 1
BTREE_ORDER == 3
MaxKey == 6
MaxDupKey == 2
MaxBTreeInserts == 6
MaxDeletes == 1
MaxAutoId == 2
MaxChunk == 3
MaxBlocks == 2
MaxHeldOps == 2
MaxHeldMeta == 1
DocLen == 40
MaxIndexDocs == 3
MaxQueryKeys == 2

(* ----------------------------- value sets ------------------------------ *)
TxIds == 1..MaxTx
DocIds == 1..NumIds
AllIds == 1..MaxAutoId
Vals == {"a", "b"}
Users == "users"
OrdersName == "orders"

NoUid == <<0, 0>>

TransactionState == {"Active", "Committed", "Aborted"}

WALEntryType == {"Begin", "Operation", "Commit", "Abort", "IndexChange"}

NoOp == [kind |-> "None", collection |-> "", doc_id |-> 0, doc |-> ""]

Operation ==
  [kind : {"Insert"}, collection : {Users}, doc_id : DocIds, doc : {"a"}]
  \cup [kind : {"Update"}, collection : {Users}, doc_id : DocIds, doc : {"b"}]
  \cup [kind : {"Delete"}, collection : {Users}, doc_id : DocIds, doc : {""}]

NoIx == [collection |-> "", index_name |-> "", operation |-> "None", key |-> 0, doc_id |-> 0]

IndexNames == {"users_id", "users_email"}

Keys == {1, 2}

IndexChange == [operation : {"Insert", "Delete"}, key : Keys, doc_id : DocIds]

NoChanges == [n \in IndexNames |-> <<>>]

MetadataChange == [collection : {Users}, last_id : AllIds]

CollectionScan == [kind |-> "CollectionScan", index_name |-> <<>>, field |-> <<>>]

Threads == {"t1", "t2"}

NoThread == "none"

(* the arguments and locals of a CollectionCore call when none runs *)
NoLoc == [key |-> 0, val |-> "", doc_id |-> 0, doc_ids |-> <<>>]

CollNames == {"users", "orders", "logs"}

DataLens == {10, 300}

HEADER_SIZE == 256

RESERVED_METADATA_SIZE == 262144

DATA_START_OFFSET == HEADER_SIZE + RESERVED_METADATA_SIZE

NoMeta == [present |-> FALSE, data_offset |-> 0, index_offset |-> 0]

HeaderBytes == 36

NoTx ==
  [id |-> 0, operations |-> <<>>, index_changes |-> NoChanges, metadata_changes |-> <<>>,
   state |-> "None", uid |-> NoUid]

VARIABLES
  up,            \* a DatabaseCore is open on the path
  epoch,         \* number of DatabaseCore::open calls so far (history)
  data,          \* data file: the document records after DATA_START_OFFSET
  dataSynced,    \* length of the data file covered by the last sync_all
  wal,           \* WAL file: sequence of frames
  walSynced,     \* length of the WAL covered by the last sync_all
  next_tx_id,    \* DatabaseCore.next_tx_id
  active,        \* DatabaseCore.active_transactions
  held,          \* a Transaction clone returned by get_transaction
  okCommits,     \* history: uids whose commit returned Ok
  errCommits,    \* history: uids whose storage commit returned Err
  rolledBack,    \* history: uids whose rollback returned Ok
  wroteCommit,   \* history: uids for which a COMMIT frame was appended
  begun,         \* history: number of begin_transaction calls so far
  expected,      \* history: per _id, what the last commit that returned Ok left
  indexes,       \* IndexManager.btree_indexes of the caller's CollectionCore handle
  tmp_files,     \* the .idx.tmp files on disk
  idx_files,     \* the .idx files on disk
  last_id,       \* CollectionMeta.last_id of the collection, in memory
  disk_last_id,  \* CollectionMeta.last_id in the metadata on disk
  indexErrors,   \* history: uids whose two-phase commit returned IndexError
  changes,       \* history: number of add_index_change calls so far
  clones,        \* history: number of get_transaction calls so far
  clean,         \* history: the last process lifetime ended with a close
  root,          \* BPlusTreeFull.root
  num_keys,      \* BPlusTreeFull.metadata.num_keys
  tree_unique,   \* BPlusTreeFull.metadata.unique
  stored,        \* history: the (key, id) pairs inserted into the tree and not deleted
  deletes,       \* history: number of delete calls on the tree so far
  result,        \* history: what the last call on the tree returned
  collections,   \* StorageEngine.collections: name -> CollectionMeta
  file_len,      \* length of the database file in bytes
  blocks,        \* history: the blocks write_data wrote, with offset and length
  document_catalog, \* CollectionMeta.document_catalog of users: _id -> place in the data file
  tx_result,     \* history: what the last call on the Transaction the caller holds returned
  pc,            \* per thread: the statement of the DatabaseCore call it runs
  th_tx,         \* per thread: the local variables tx_id / transaction of its call
  th_k,          \* per thread: frames or records its commit has appended so far
  storage_lock,  \* DatabaseCore.storage (RwLock): the thread that holds write(), or NoThread
  returned,      \* history: the ids begin_transaction returned, in return order
  fsyncs,        \* history, per thread: the files its running commit has fsynced
  hpc,           \* per thread: the statement of the CollectionCore call it runs
  h_loc,         \* per thread: the arguments and local variables of that call
  idx_readers,   \* CollectionCore.indexes (RwLock): per thread, the read() guards it holds
  available_indexes, \* IndexManager of a handle of users: index name -> indexed field
  planned_query, \* history: the query of the last QueryPlanner::analyze_query call
  query_plan     \* history: what that call returned

ixvars == <<indexes, tmp_files, idx_files, last_id, disk_last_id, indexErrors, changes>>

(* the state of the database: files, registry, handle, history *)
dbvars == <<up, epoch, data, dataSynced, wal, walSynced, next_tx_id, active, held,
            okCommits, errCommits, rolledBack, wroteCommit, begun, expected,
            indexes, tmp_files, idx_files, last_id, disk_last_id, indexErrors, changes, clones,
            clean>>

(* a BPlusTreeFull on its own *)
btvars == <<root, num_keys, tree_unique, stored, deletes, result>>

(* the layout of the database file in bytes *)
mdvars == <<collections, file_len, blocks, document_catalog>>

(* calls seen from the callers *)
tvars == <<pc, th_tx, th_k, storage_lock, returned, fsyncs>>

hvars == <<hpc, h_loc, idx_readers>>

(* the query planner and the indexes it is given *)
pvars == <<available_indexes, planned_query, query_plan>>

thvars == <<tx_result, tvars, hvars, pvars>>

vars == <<dbvars, btvars, mdvars, thvars>>

(* ------------------------------ helpers -------------------------------- *)
RECURSIVE SeqConcat(_)
SeqConcat(ss) == IF ss = <<>> THEN <<>> ELSE Head(ss) \o SeqConcat(Tail(ss))

SetMax(S) == CHOOSE x \in S : \A y \in S : y <= x

Prefixes(lo, s) == {SubSeq(s, 1, n) : n \in lo..Len(s)}

(* ------------------------------ Transaction ---------------------------- *)
Transaction_new(id, e) ==
  [id |-> id, operations |-> <<>>, index_changes |-> NoChanges, metadata_changes |-> <<>>,
   state |-> "Active", uid |-> <<e, id>>]

is_active(tx) == tx.state = "Active"

Transaction_rollback(tx) ==
  [tx EXCEPT !.operations = <<>>, !.index_changes = NoChanges, !.metadata_changes = <<>>,
             !.state = "Aborted"]

(* the three add calls of a Transaction: TransactionCommitted, and nothing *)
(* pushed, unless the state is Active                                      *)
Transaction_add_operation(tx, op) ==
  IF ~is_active(tx)
  THEN [result |-> "TransactionCommitted", tx |-> tx]
  ELSE [result |-> "Ok", tx |-> [tx EXCEPT !.operations = Append(@, op)]]

Transaction_add_index_change(tx, index_name, change) ==
  IF ~is_active(tx)
  THEN [result |-> "TransactionCommitted", tx |-> tx]
  ELSE [result |-> "Ok", tx |-> [tx EXCEPT !.index_changes[index_name] = Append(@, change)]]

(* add_metadata_change that pushes whatever the state is *)
Transaction_add_metadata_change_unchecked(tx, change) ==
  [result |-> "Ok", tx |-> [tx EXCEPT !.metadata_changes = Append(@, change)]]

Transaction_add_metadata_change(tx, change) ==
  IF ~is_active(tx)
  THEN [result |-> "TransactionCommitted", tx |-> tx]
  ELSE [result |-> "Ok", tx |-> [tx EXCEPT !.metadata_changes = Append(@, change)]]

Transaction_mark_committed(tx) ==
  IF ~is_active(tx)
  THEN [result |-> "TransactionCommitted", tx |-> tx]
  ELSE [result |-> "Ok", tx |-> [tx EXCEPT !.state = "Committed"]]

(* ------------------------------ WAL frames ----------------------------- *)
WALEntry(tx_id, type, op, ix, uid) ==
  [transaction_id |-> tx_id, entry_type |-> type, data |-> op, ix |-> ix, uid |-> uid]

(* the collection named in INDEX_CHANGE frames: that of the first operation *)
collection_name(tx) ==
  IF tx.operations = <<>> THEN "unknown" ELSE tx.operations[1].collection

(* orders in which a HashMap over the key set S may be iterated *)
Orders(S) ==
  {s \in [1..Cardinality(S) -> S] : \A i, j \in 1..Cardinality(S) : s[i] = s[j] => i = j}

ChangedIndexes(tx) == {n \in IndexNames : tx.index_changes[n] # <<>>}

IndexFrames(tx, n) ==
  [i \in 1..Len(tx.index_changes[n]) |->
     WALEntry(tx.id, "IndexChange", NoOp,
              [collection |-> collection_name(tx), index_name |-> n,
               operation |-> tx.index_changes[n][i].operation,
               key |-> tx.index_changes[n][i].key,
               doc_id |-> tx.index_changes[n][i].doc_id], tx.uid)]

(* the frames commit_transaction appends, in append order; ixOrder is the *)
(* iteration order of the index_changes map                               *)
TxFrames(tx, ixOrder) ==
  <<WALEntry(tx.id, "Begin", NoOp, NoIx, tx.uid)>>
  \o [i \in 1..Len(tx.operations) |->
        WALEntry(tx.id, "Operation", tx.operations[i], NoIx, tx.uid)]
  \o SeqConcat([k \in 1..Len(ixOrder) |-> IndexFrames(tx, ixOrder[k])])
  \o <<WALEntry(tx.id, "Commit", NoOp, NoIx, tx.uid)>>

(* WriteAheadLog::recover: frames grouped by transaction id, file order   *)
(* kept inside a group, groups whose last frame is COMMIT returned in the *)
(* iteration order of the map                                             *)
WalGroup(w, t) == SelectSeq(w, LAMBDA e : e.transaction_id = t)

WalCommitted(w) ==
  {t \in {w[i].transaction_id : i \in 1..Len(w)} :
     WalGroup(w, t)[Len(WalGroup(w, t))].entry_type = "Commit"}

recover(w) ==
  {[k \in 1..Len(o) |-> WalGroup(w, o[k])] : o \in Orders(WalCommitted(w))}

(* ------------------------------ data file ------------------------------ *)
(* the record apply_operations / recover_from_wal writes for one operation; *)
(* email is the field "email" of the document, 0 when it has none          *)
OpRecord(op, src) ==
  IF op.kind = "Delete"
  THEN [coll |-> op.collection, id |-> op.doc_id, val |-> "", tomb |-> TRUE, src |-> src,
        email |-> 0]
  ELSE [coll |-> op.collection, id |-> op.doc_id, val |-> op.doc, tomb |-> FALSE, src |-> src,
        email |-> 0]

apply_operations(tx) ==
  [i \in 1..Len(tx.operations) |-> OpRecord(tx.operations[i], tx.uid)]

(* scan_documents: the latest record of every _id of collection c *)
LatestIdx(f, c, d) ==
  LET S == {i \in 1..Len(f) : f[i].coll = c /\ f[i].id = d}
  IN IF S = {} THEN 0 ELSE SetMax(S)

Live(f, c, d) == LatestIdx(f, c, d) # 0 /\ ~f[LatestIdx(f, c, d)].tomb

(* find({}): the live (_id -> value) pairs of collection c *)
View(f, c) == {<<d, f[LatestIdx(f, c, d)].val>> : d \in {x \in DocIds : Live(f, c, x)}}

(* records recover_from_wal appends for the recovered groups *)
ReplayGroup(g) ==
  LET ops == SelectSeq(g, LAMBDA e : e.entry_type = "Operation")
  IN [i \in 1..Len(ops) |-> OpRecord(ops[i].data, ops[i].uid)]

ReplayRecords(recovered) ==
  SeqConcat([k \in 1..Len(recovered) |-> ReplayGroup(recovered[k])])

(* ------------------------------ indexes -------------------------------- *)
(* a BPlusTree is its single leaf: keys in ascending order and the         *)
(* document ids beside them; the same record stands for an index file,     *)
(* present = FALSE meaning that there is no such index or file             *)
NoIndex == [present |-> FALSE, unique |-> FALSE, keys |-> <<>>, document_ids |-> <<>>]

BPlusTree_new(unique) ==
  [present |-> TRUE, unique |-> unique, keys |-> <<>>, document_ids |-> <<>>]

(* leaf.keys.binary_search(key): a position holding key, or 0 *)
binary_search(tree, key) ==
  IF \E i \in 1..Len(tree.keys) : tree.keys[i] = key
  THEN CHOOSE i \in 1..Len(tree.keys) : tree.keys[i] = key
  ELSE 0

search(tree, key) ==
  IF binary_search(tree, key) = 0 THEN 0 ELSE tree.document_ids[binary_search(tree, key)]

InsertAt(q, pos, x) == SubSeq(q, 1, pos - 1) \o <<x>> \o SubSeq(q, pos, Len(q))

RemoveAt(q, pos) == SubSeq(q, 1, pos - 1) \o SubSeq(q, pos + 1, Len(q))

(* BPlusTree::insert: Err on a key that a unique index already holds *)
BPlusTree_insert(tree, key, doc_id) ==
  IF tree.unique /\ search(tree, key) # 0
  THEN [ok |-> FALSE, tree |-> tree]
  ELSE LET pos == IF binary_search(tree, key) # 0
                  THEN binary_search(tree, key)
                  ELSE Cardinality({i \in 1..Len(tree.keys) : tree.keys[i] < key}) + 1
       IN [ok |-> TRUE,
           tree |-> [tree EXCEPT !.keys = InsertAt(@, pos, key),
                                 !.document_ids = InsertAt(@, pos, doc_id)]]

(* BPlusTree::delete: always Ok; removes the key when it maps to doc_id *)
BPlusTree_delete(tree, key, doc_id) ==
  LET pos == binary_search(tree, key)
  IN IF pos # 0 /\ tree.document_ids[pos] = doc_id
     THEN [ok |-> TRUE,
           tree |-> [tree EXCEPT !.keys = RemoveAt(@, pos),
                                 !.document_ids = RemoveAt(@, pos)]]
     ELSE [ok |-> TRUE, tree |-> tree]

apply_change(tree, change) ==
  IF change.operation = "Insert"
  THEN BPlusTree_insert(tree, change.key, change.doc_id)
  ELSE BPlusTree_delete(tree, change.key, change.doc_id)

(* the changes of one index applied in order, up to the first error *)
RECURSIVE apply_changes(_, _)
apply_changes(tree, cs) ==
  IF cs = <<>>
  THEN [ok |-> TRUE, tree |-> tree]
  ELSE IF ~apply_change(tree, Head(cs)).ok
       THEN [ok |-> FALSE, tree |-> tree]
       ELSE apply_changes(apply_change(tree, Head(cs)).tree, Tail(cs))

(* CollectionCore::new(name): an IndexManager that holds the unique index  *)
(* <name>_id and nothing else                                              *)
IdIndexName(name) == IF name = Users THEN "users_id" ELSE "unknown_id"

CollectionCore_new(name) ==
  [n \in IndexNames |-> IF n = IdIndexName(name) THEN BPlusTree_new(TRUE) ELSE NoIndex]

NoFiles == [n \in IndexNames |-> NoIndex]

(* rollback_prepared_changes on every temp file prepared so far *)
rollback_prepared_changes(tmp, prepared) ==
  [n \in IndexNames |->
     IF \E i \in 1..Len(prepared) : prepared[i] = n THEN NoIndex ELSE tmp[n]]

(* Phase 1 of commit_transaction_with_indexes over the indexes named in    *)
(* order: an index the handle does not hold is passed over; the first      *)
(* failing change removes the temp files prepared so far                   *)
RECURSIVE prepare_indexes(_, _, _, _, _)
prepare_indexes(tx, order, handle, prepared, tmp) ==
  IF order = <<>>
  THEN [ok |-> TRUE, prepared |-> prepared, tmp |-> tmp]
  ELSE IF ~handle[Head(order)].present
       THEN prepare_indexes(tx, Tail(order), handle, prepared, tmp)
       ELSE LET n == Head(order)
                r == apply_changes(handle[n], tx.index_changes[n])
            IN IF ~r.ok
               THEN [ok |-> FALSE, prepared |-> prepared,
                     tmp |-> rollback_prepared_changes(tmp, prepared)]
               ELSE prepare_indexes(tx, Tail(order), handle, Append(prepared, n),
                                    [tmp EXCEPT ![n] = r.tree])

(* Phase 3: every prepared temp file renamed onto its final path *)
commit_prepared_changes(tmp, idx, prepared) ==
  [tmp |-> rollback_prepared_changes(tmp, prepared),
   idx |-> [n \in IndexNames |->
              IF \E i \in 1..Len(prepared) : prepared[i] = n THEN tmp[n] ELSE idx[n]]]

(* the index changes recover_from_wal hands to DatabaseCore::open *)
all_index_changes(recovered) ==
  LET frames == SelectSeq(SeqConcat(recovered), LAMBDA e : e.entry_type = "IndexChange")
  IN [i \in 1..Len(frames) |-> frames[i].ix]

(* DatabaseCore::open applies the recovered changes of each collection to  *)
(* a new handle of that collection; an error of insert is returned         *)
RECURSIVE apply_recovered(_, _)
apply_recovered(handle, cs) ==
  IF cs = <<>> THEN TRUE
  ELSE IF ~handle[Head(cs).index_name].present
       THEN apply_recovered(handle, Tail(cs))
       ELSE LET r == apply_change(handle[Head(cs).index_name], Head(cs))
            IN r.ok /\ apply_recovered([handle EXCEPT ![Head(cs).index_name] = r.tree],
                                       Tail(cs))

open_indexes_ok(recovered) ==
  \A c \in {Users, "unknown"} :
    apply_recovered(CollectionCore_new(c),
                    SelectSeq(all_index_changes(recovered), LAMBDA x : x.collection = c))

(* ------------------------- history bookkeeping ------------------------- *)
NoExp == [set |-> FALSE, val |-> "", tomb |-> FALSE]

Touched(tx) == {tx.operations[i].doc_id : i \in 1..Len(tx.operations)}

(* what applying the operations of tx in order leaves for _id d *)
FinalFor(tx, d) ==
  LET k == SetMax({i \in 1..Len(tx.operations) : tx.operations[i].doc_id = d})
      r == OpRecord(tx.operations[k], tx.uid)
  IN [set |-> TRUE, val |-> r.val, tomb |-> r.tomb]

(* a commit that returned Ok is the last writer of the ids it touched; any *)
(* other write to an id lifts the expectation on it                        *)
ExpectAfterCommit(tx, ok) ==
  [d \in DocIds |-> IF d \in Touched(tx)
                    THEN (IF ok THEN FinalFor(tx, d) ELSE NoExp)
                    ELSE expected[d]]

(* ------------------------- process lifetime ---------------------------- *)
Init ==
  /\ up = TRUE
  /\ epoch = 1
  /\ data = <<>>
  /\ dataSynced = 0
  /\ wal = <<>>
  /\ walSynced = 0
  /\ next_tx_id = 1
  /\ active = [i \in TxIds |-> NoTx]
  /\ held = NoTx
  /\ okCommits = {}
  /\ errCommits = {}
  /\ rolledBack = {}
  /\ wroteCommit = {}
  /\ begun = 0
  /\ expected = [d \in DocIds |-> NoExp]
  /\ indexes = CollectionCore_new(Users)
  /\ tmp_files = NoFiles
  /\ idx_files = NoFiles
  /\ last_id = 0
  /\ disk_last_id = 0
  /\ indexErrors = {}
  /\ changes = 0
  /\ clones = 0
  /\ clean = TRUE
  /\ root = [leaf |-> TRUE, keys |-> <<>>, values |-> <<>>, children |-> <<>>]
  /\ num_keys = 0
  /\ tree_unique = TRUE
  /\ stored = {}
  /\ deletes = 0
  /\ result = "none"
  /\ tx_result = "none"
  /\ pc = [t \in Threads |-> "idle"]
  /\ th_tx = [t \in Threads |-> NoTx]
  /\ th_k = [t \in Threads |-> 0]
  /\ storage_lock = NoThread
  /\ returned = <<>>
  /\ fsyncs = [t \in Threads |-> <<>>]
  /\ hpc = [t \in Threads |-> "idle"]
  /\ h_loc = [t \in Threads |-> NoLoc]
  /\ idx_readers = [t \in Threads |-> 0]
  /\ available_indexes = {[name |-> <<Users>> \o <<"_", "id">>, field |-> <<"_", "id">>]}
  /\ planned_query = <<>>
  /\ query_plan = CollectionScan
  /\ collections = [n \in CollNames |-> NoMeta]
  /\ file_len = HeaderBytes
  /\ blocks = <<>>
  /\ document_catalog = [d \in AllIds |-> 0]

(* StorageEngine::recover_from_wal on the files (d, w): the new contents   *)
(* of the data file and of the WAL for one iteration order of recover      *)
recover_from_wal(d, w, recovered) ==
  IF recovered = <<>>
  THEN [data |-> d, wal |-> w, cleared |-> FALSE]
  ELSE [data |-> d \o ReplayRecords(recovered), wal |-> <<>>, cleared |-> TRUE]

(* DatabaseCore::open: StorageEngine::open, recover_from_wal, a registry   *)
(* that is empty and a transaction counter that starts at 1, the recovered *)
(* index changes applied to new handles.  When one of these fails, open    *)
(* returns the error after the replay: the engine is dropped, which syncs  *)
(* the data file, and no DatabaseCore exists.  After a successful open the *)
(* caller takes a handle of the collection.                                *)
Open ==
  /\ ~up
  /\ epoch < MaxEpoch
  /\ \E recovered \in recover(wal) :
       LET r == recover_from_wal(data, wal, recovered) IN
       /\ Len(r.data) <= MaxData
       /\ data' = r.data
       /\ wal' = r.wal
       /\ walSynced' = IF r.cleared THEN 0 ELSE walSynced
       /\ up' = open_indexes_ok(recovered)
       /\ dataSynced' = IF open_indexes_ok(recovered) THEN dataSynced ELSE Len(r.data)
  /\ epoch' = epoch + 1
  /\ next_tx_id' = 1
  /\ active' = [i \in TxIds |-> NoTx]
  /\ held' = NoTx
  /\ indexes' = CollectionCore_new(Users)
  /\ clean' = TRUE
  /\ last_id' = disk_last_id
  /\ UNCHANGED <<okCommits, errCommits, rolledBack, wroteCommit, begun,
                 clones, expected, tmp_files, idx_files, disk_last_id,
                 indexErrors, changes>>
  /\ UNCHANGED <<btvars, mdvars, thvars>>

(* a crash inside recover_from_wal, after some of the replayed records     *)
(* were written and before wal.clear(): whatever part of the unsynced      *)
(* records survives stays in the data file, the WAL is as it was           *)
OpenCrash ==
  /\ ~up
  /\ \E recovered \in recover(wal) :
       \E d \in Prefixes(Len(data), recover_from_wal(data, wal, recovered).data) :
         /\ Len(d) > Len(data)
         /\ Len(d) <= MaxData
         /\ data' = d
         /\ dataSynced' = Len(d)
  /\ UNCHANGED <<up, epoch, wal, walSynced, next_tx_id, active, held,
                 okCommits, errCommits, rolledBack, wroteCommit, begun, clones, expected>>
  /\ clean' = FALSE
  /\ UNCHANGED ixvars
  /\ UNCHANGED <<btvars, mdvars, thvars>>

(* drop of DatabaseCore: StorageEngine::drop flushes and syncs the data    *)
(* file; the WAL file is closed with everything that was written to it     *)
Close ==
  /\ up
  /\ up' = FALSE
  /\ dataSynced' = Len(data)
  /\ walSynced' = Len(wal)
  /\ active' = [i \in TxIds |-> NoTx]
  /\ held' = NoTx
  /\ indexes' = CollectionCore_new(Users)
  /\ clean' = TRUE
  /\ disk_last_id' = last_id
  /\ UNCHANGED <<epoch, data, wal, next_tx_id, okCommits, errCommits,
                 rolledBack, wroteCommit, begun, clones, expected, tmp_files,
                 idx_files, last_id, indexErrors, changes>>
  /\ UNCHANGED <<btvars, mdvars, thvars>>

(* the process dies: of each file the synced part and any part of the     *)
(* rest survive                                                            *)
Crash ==
  /\ up
  /\ up' = FALSE
  /\ \E d \in Prefixes(dataSynced, data) : data' = d /\ dataSynced' = Len(d)
  /\ \E w \in Prefixes(walSynced, wal) : wal' = w /\ walSynced' = Len(w)
  /\ active' = [i \in TxIds |-> NoTx]
  /\ held' = NoTx
  /\ indexes' = CollectionCore_new(Users)
  /\ clean' = FALSE
  /\ last_id' = disk_last_id
  /\ UNCHANGED <<epoch, next_tx_id, okCommits, errCommits, rolledBack,
                 wroteCommit, begun, clones, expected, tmp_files, idx_files,
                 disk_last_id, indexErrors, changes>>
  /\ UNCHANGED <<btvars, mdvars, thvars>>

(* ------------------------- transaction registry ------------------------ *)
begin_transaction ==
  /\ up
  /\ next_tx_id <= MaxTx
  /\ begun < MaxBegun
  /\ begun' = begun + 1
  /\ next_tx_id' = next_tx_id + 1
  /\ active' = [active EXCEPT ![next_tx_id] = Transaction_new(next_tx_id, epoch)]
  /\ UNCHANGED <<up, epoch, data, dataSynced, wal, walSynced, held,
                 okCommits, errCommits, rolledBack, wroteCommit, expected, clones, clean>>
  /\ UNCHANGED ixvars
  /\ UNCHANGED <<btvars, mdvars, thvars>>

(* with_transaction(id, |tx| tx.add_operation(op)) *)
add_operation(id, op) ==
  /\ up
  /\ active[id] # NoTx
  /\ is_active(active[id])
  /\ Len(active[id].operations) < MaxOps
  /\ active' = [active EXCEPT ![id].operations = Append(@, op)]
  /\ UNCHANGED <<up, epoch, data, dataSynced, wal, walSynced, next_tx_id, held,
                 okCommits, errCommits, rolledBack, wroteCommit, begun, clones, expected, clean>>
  /\ UNCHANGED ixvars
  /\ UNCHANGED <<btvars, mdvars, thvars>>

(* get_transaction(id): the caller receives a clone *)
get_transaction(id) ==
  /\ up
  /\ active[id] # NoTx
  /\ clones < MaxClones
  /\ clones' = clones + 1
  /\ held' = active[id]
  /\ UNCHANGED <<up, epoch, data, dataSynced, wal, walSynced, next_tx_id, active,
                 okCommits, errCommits, rolledBack, wroteCommit, begun, expected, clean>>
  /\ UNCHANGED ixvars
  /\ UNCHANGED <<btvars, mdvars, thvars>>

(* update_transaction(tx.id, tx) with a Transaction the caller holds *)
update_transaction ==
  /\ up
  /\ held # NoTx
  /\ active[held.id] # held
  /\ active' = [active EXCEPT ![held.id] = held]
  /\ UNCHANGED <<up, epoch, data, dataSynced, wal, walSynced, next_tx_id, held,
                 okCommits, errCommits, rolledBack, wroteCommit, begun, clones, expected, clean>>
  /\ UNCHANGED ixvars
  /\ UNCHANGED <<btvars, mdvars, thvars>>

(* ----------------------- a Transaction on its own --------------------- *)
(* the calls of a caller on a Transaction it owns; only held and the       *)
(* result of the call change                                               *)
HeldFrame ==
  /\ UNCHANGED <<up, epoch, data, dataSynced, wal, walSynced, next_tx_id, active,
                 okCommits, errCommits, rolledBack, wroteCommit, begun, expected, clones,
                 clean>>
  /\ UNCHANGED ixvars
  /\ UNCHANGED <<btvars, mdvars, tvars, hvars, pvars>>

held_new(id) ==
  /\ held = NoTx
  /\ held' = Transaction_new(id, epoch)
  /\ tx_result' = "none"
  /\ HeldFrame

held_add_operation(op) ==
  /\ held # NoTx
  /\ Len(held.operations) < MaxHeldOps
  /\ held' = Transaction_add_operation(held, op).tx
  /\ tx_result' = Transaction_add_operation(held, op).result
  /\ HeldFrame

held_add_index_change(index_name, change) ==
  /\ held # NoTx
  /\ Len(held.index_changes[index_name]) < MaxChanges
  /\ held' = Transaction_add_index_change(held, index_name, change).tx
  /\ tx_result' = Transaction_add_index_change(held, index_name, change).result
  /\ HeldFrame

held_add_metadata_change(change) ==
  /\ held # NoTx
  /\ Len(held.metadata_changes) < MaxHeldMeta
  /\ held' = Transaction_add_metadata_change(held, change).tx
  /\ tx_result' = Transaction_add_metadata_change(held, change).result
  /\ HeldFrame

held_mark_committed ==
  /\ held # NoTx
  /\ held' = Transaction_mark_committed(held).tx
  /\ tx_result' = Transaction_mark_committed(held).result
  /\ HeldFrame

held_rollback ==
  /\ held # NoTx
  /\ held' = Transaction_rollback(held)
  /\ tx_result' = "Ok"
  /\ HeldFrame

NextTransaction ==
  \/ \E id \in TxIds : held_new(id)
  \/ \E op \in Operation : held_add_operation(op)
  \/ \E n \in IndexNames, c \in IndexChange : held_add_index_change(n, c)
  \/ \E mc \in MetadataChange : held_add_metadata_change(mc)
  \/ held_mark_committed
  \/ held_rollback

(* the Transaction specification: one Transaction and every call on it *)
SpecTransaction == Init /\ [][NextTransaction]_vars

(* ------------------------- threads on one DatabaseCore ------------------ *)
(* Each thread runs calls of DatabaseCore statement by statement.  A       *)
(* section under active_transactions.write() holds one map operation and   *)
(* is one step; storage.write() is held over the whole storage call, whose *)
(* file operations are steps of their own.                                 *)
ThFrame ==
  /\ UNCHANGED <<up, epoch, held, errCommits, begun, expected, clones, clean, tx_result>>
  /\ UNCHANGED ixvars
  /\ UNCHANGED <<btvars, mdvars, hvars, pvars>>

Goto(t, label) == pc' = [pc EXCEPT ![t] = label]

(* begin_transaction: next_tx_id.fetch_add(1) without the add *)
th_fetch_add_stale(t) ==
  /\ pc[t] = "idle"
  /\ next_tx_id <= MaxTx
  /\ th_tx' = [th_tx EXCEPT ![t] = Transaction_new(next_tx_id, epoch)]
  /\ Goto(t, "begin_insert")
  /\ UNCHANGED <<next_tx_id, active, wal, walSynced, data, dataSynced, okCommits, rolledBack,
                 wroteCommit, th_k, storage_lock, returned, fsyncs>>
  /\ ThFrame

(* begin_transaction: next_tx_id.fetch_add(1, SeqCst); Transaction::new *)
th_fetch_add(t) ==
  /\ pc[t] = "idle"
  /\ next_tx_id <= MaxTx
  /\ next_tx_id' = next_tx_id + 1
  /\ th_tx' = [th_tx EXCEPT ![t] = Transaction_new(next_tx_id, epoch)]
  /\ Goto(t, "begin_insert")
  /\ UNCHANGED <<active, wal, walSynced, data, dataSynced, okCommits, rolledBack,
                 wroteCommit, th_k, storage_lock, returned, fsyncs>>
  /\ ThFrame

(* begin_transaction: active.insert(tx_id, transaction); return tx_id.     *)
(* The thread keeps the id it was given.                                   *)
th_begin_insert(t) ==
  /\ pc[t] = "begin_insert"
  /\ active' = [active EXCEPT ![th_tx[t].id] = th_tx[t]]
  /\ returned' = Append(returned, th_tx[t].id)
  /\ Goto(t, "ready")
  /\ UNCHANGED <<next_tx_id, wal, walSynced, data, dataSynced, okCommits, rolledBack,
                 wroteCommit, th_tx, th_k, storage_lock, fsyncs>>
  /\ ThFrame

(* with_transaction(id, |tx| tx.add_operation(op)) *)
th_add_operation(t, op) ==
  /\ pc[t] = "ready"
  /\ active[th_tx[t].id] # NoTx
  /\ Len(active[th_tx[t].id].operations) < MaxOps
  /\ active' = [active EXCEPT
                  ![th_tx[t].id] = Transaction_add_operation(@, op).tx]
  /\ UNCHANGED <<next_tx_id, wal, walSynced, data, dataSynced, okCommits, rolledBack,
                 wroteCommit, pc, th_tx, th_k, storage_lock, returned, fsyncs>>
  /\ ThFrame

(* commit_transaction / rollback_transaction: active.remove(&tx_id) *)
th_remove(t, call) ==
  /\ pc[t] = "ready"
  /\ active[th_tx[t].id] # NoTx
  /\ th_tx' = [th_tx EXCEPT ![t] = active[th_tx[t].id]]
  /\ active' = [active EXCEPT ![th_tx[t].id] = NoTx]
  /\ Goto(t, IF call = "commit" THEN "commit_lock" ELSE "rollback_lock")
  /\ UNCHANGED <<next_tx_id, wal, walSynced, data, dataSynced, okCommits, rolledBack,
                 wroteCommit, th_k, storage_lock, returned, fsyncs>>
  /\ ThFrame

(* self.storage.write() taken whoever holds it *)
th_storage_write_unguarded(t) ==
  /\ pc[t] \in {"commit_lock", "rollback_lock"}
  /\ storage_lock' = t
  /\ th_k' = [th_k EXCEPT ![t] = 0]
  /\ fsyncs' = [fsyncs EXCEPT ![t] = <<>>]
  /\ Goto(t, IF pc[t] = "commit_lock" THEN "commit_wal" ELSE "rollback_wal")
  /\ UNCHANGED <<next_tx_id, active, wal, walSynced, data, dataSynced, okCommits,
                 rolledBack, wroteCommit, th_tx, returned>>
  /\ ThFrame

(* let mut storage = self.storage.write(): blocks while another thread     *)
(* holds the lock                                                          *)
th_storage_write(t) ==
  /\ pc[t] \in {"commit_lock", "rollback_lock"}
  /\ storage_lock = NoThread
  /\ storage_lock' = t
  /\ th_k' = [th_k EXCEPT ![t] = 0]
  /\ fsyncs' = [fsyncs EXCEPT ![t] = <<>>]
  /\ Goto(t, IF pc[t] = "commit_lock" THEN "commit_wal" ELSE "rollback_wal")
  /\ UNCHANGED <<next_tx_id, active, wal, walSynced, data, dataSynced, okCommits,
                 rolledBack, wroteCommit, th_tx, returned>>
  /\ ThFrame

(* StorageEngine::commit_transaction, steps 1 to 3: one wal.append *)
th_wal_append(t) ==
  /\ pc[t] = "commit_wal"
  /\ LET F == TxFrames(th_tx[t], <<>>)
     IN /\ wal' = Append(wal, F[th_k[t] + 1])
        /\ wroteCommit' = IF th_k[t] + 1 = Len(F)
                          THEN wroteCommit \cup {th_tx[t].uid} ELSE wroteCommit
        /\ IF th_k[t] + 1 = Len(F)
           THEN Goto(t, "commit_flush") /\ th_k' = [th_k EXCEPT ![t] = 0]
           ELSE UNCHANGED pc /\ th_k' = [th_k EXCEPT ![t] = @ + 1]
  /\ UNCHANGED <<next_tx_id, active, walSynced, data, dataSynced, okCommits, rolledBack,
                 th_tx, storage_lock, returned, fsyncs>>
  /\ ThFrame

(* step 4 left out: no fsync of the WAL *)
th_wal_flush_skipped(t) ==
  /\ pc[t] = "commit_flush"
  /\ Goto(t, IF th_tx[t].operations = <<>> THEN "commit_sync" ELSE "commit_apply")
  /\ UNCHANGED <<next_tx_id, active, wal, walSynced, data, dataSynced, okCommits, rolledBack,
                 wroteCommit, th_tx, th_k, storage_lock, returned, fsyncs>>
  /\ ThFrame

(* step 4: self.wal.flush() *)
th_wal_flush(t) ==
  /\ pc[t] = "commit_flush"
  /\ walSynced' = Len(wal)
  /\ fsyncs' = [fsyncs EXCEPT ![t] = Append(@, "wal")]
  /\ Goto(t, IF th_tx[t].operations = <<>> THEN "commit_sync" ELSE "commit_apply")
  /\ UNCHANGED <<next_tx_id, active, wal, data, dataSynced, okCommits, rolledBack,
                 wroteCommit, th_tx, th_k, storage_lock, returned>>
  /\ ThFrame

(* step 5, apply_operations: one write_data *)
th_write_data(t) ==
  /\ pc[t] = "commit_apply"
  /\ data' = Append(data, apply_operations(th_tx[t])[th_k[t] + 1])
  /\ IF th_k[t] + 1 = Len(th_tx[t].operations)
     THEN Goto(t, "commit_sync") /\ th_k' = [th_k EXCEPT ![t] = 0]
     ELSE UNCHANGED pc /\ th_k' = [th_k EXCEPT ![t] = @ + 1]
  /\ UNCHANGED <<next_tx_id, active, wal, walSynced, dataSynced, okCommits, rolledBack,
                 wroteCommit, th_tx, storage_lock, returned, fsyncs>>
  /\ ThFrame

(* step 8: self.file.sync_all() *)
th_sync_all(t) ==
  /\ pc[t] = "commit_sync"
  /\ dataSynced' = Len(data)
  /\ fsyncs' = [fsyncs EXCEPT ![t] = Append(@, "data")]
  /\ Goto(t, "commit_mark")
  /\ UNCHANGED <<next_tx_id, active, wal, walSynced, data, okCommits, rolledBack,
                 wroteCommit, th_tx, th_k, storage_lock, returned>>
  /\ ThFrame

(* step 9: transaction.mark_committed(); Ok(()) *)
th_mark_committed(t) ==
  /\ pc[t] = "commit_mark"
  /\ th_tx' = [th_tx EXCEPT ![t] = Transaction_mark_committed(@).tx]
  /\ okCommits' = okCommits \cup {th_tx[t].uid}
  /\ Goto(t, "unlock")
  /\ UNCHANGED <<next_tx_id, active, wal, walSynced, data, dataSynced, rolledBack,
                 wroteCommit, th_k, storage_lock, returned, fsyncs>>
  /\ ThFrame

(* StorageEngine::rollback_transaction: the ABORT frame, wal.flush(),      *)
(* transaction.rollback()                                                  *)
th_abort_append(t) ==
  /\ pc[t] = "rollback_wal"
  /\ wal' = Append(wal, WALEntry(th_tx[t].id, "Abort", NoOp, NoIx, th_tx[t].uid))
  /\ Goto(t, "rollback_flush")
  /\ UNCHANGED <<next_tx_id, active, walSynced, data, dataSynced, okCommits, rolledBack,
                 wroteCommit, th_tx, th_k, storage_lock, returned, fsyncs>>
  /\ ThFrame

th_abort_flush(t) ==
  /\ pc[t] = "rollback_flush"
  /\ walSynced' = Len(wal)
  /\ fsyncs' = [fsyncs EXCEPT ![t] = Append(@, "wal")]
  /\ th_tx' = [th_tx EXCEPT ![t] = Transaction_rollback(@)]
  /\ rolledBack' = rolledBack \cup {th_tx[t].uid}
  /\ Goto(t, "unlock")
  /\ UNCHANGED <<next_tx_id, active, wal, data, dataSynced, okCommits,
                 wroteCommit, th_k, storage_lock, returned>>
  /\ ThFrame

(* the guard of storage.write() and the local transaction are dropped as   *)
(* the call returns                                                        *)
th_return(t) ==
  /\ pc[t] = "unlock"
  /\ storage_lock' = IF storage_lock = t THEN NoThread ELSE storage_lock
  /\ Goto(t, "idle")
  /\ UNCHANGED <<next_tx_id, active, wal, walSynced, data, dataSynced, okCommits,
                 rolledBack, wroteCommit, th_tx, th_k, returned, fsyncs>>
  /\ ThFrame

NextThreads ==
  \E t \in Threads :
    \/ th_fetch_add(t)
    \/ th_begin_insert(t)
    \/ \E op \in Operation : th_add_operation(t, op)
    \/ \E call \in {"commit", "rollback"} : th_remove(t, call)
    \/ th_storage_write(t)
    \/ th_wal_append(t)
    \/ th_wal_flush(t)
    \/ th_write_data(t)
    \/ th_sync_all(t)
    \/ th_mark_committed(t)
    \/ th_abort_append(t)
    \/ th_abort_flush(t)
    \/ th_return(t)

(* the thread specification: two threads, each beginning transactions and  *)
(* committing or rolling back the ones it began                            *)
SpecThreads == Init /\ [][NextThreads]_vars

(* ------------------------- StorageEngine commit ------------------------ *)
(* the I/O calls of StorageEngine::commit_transaction that can return an   *)
(* error: the k-th wal.append, wal.flush, the k-th write_data of           *)
(* apply_operations and file.sync_all                                      *)
NoFault == [stage |-> "none", k |-> 0]

Faults(tx, ixOrder) ==
  {[stage |-> "wal", k |-> k] : k \in 1..Len(TxFrames(tx, ixOrder))}
  \cup {[stage |-> "flush", k |-> 0]}
  \cup {[stage |-> "apply", k |-> k] : k \in 1..Len(tx.operations)}
  \cup {[stage |-> "sync", k |-> 0]}

(* StorageEngine::commit_transaction run on the files (w, ws, d, ds) up to *)
(* the failing call: the files it leaves and what it returns               *)
storage_commit(tx, ixOrder, fault, w, ws, d, ds) ==
  LET F == TxFrames(tx, ixOrder)
      R == apply_operations(tx)
  IN IF ~is_active(tx)
     THEN [wal |-> w, walSynced |-> ws, data |-> d, dataSynced |-> ds,
           ok |-> FALSE, commitFrame |-> FALSE]
     ELSE IF fault.stage = "wal"
     THEN [wal |-> w \o SubSeq(F, 1, fault.k - 1), walSynced |-> ws,
           data |-> d, dataSynced |-> ds, ok |-> FALSE, commitFrame |-> FALSE]
     ELSE IF fault.stage = "flush"
     THEN [wal |-> w \o F, walSynced |-> ws,
           data |-> d, dataSynced |-> ds, ok |-> FALSE, commitFrame |-> TRUE]
     ELSE IF fault.stage = "apply"
     THEN [wal |-> w \o F, walSynced |-> Len(w \o F),
           data |-> d \o SubSeq(R, 1, fault.k - 1), dataSynced |-> ds,
           ok |-> FALSE, commitFrame |-> TRUE]
     ELSE IF fault.stage = "sync"
     THEN [wal |-> w \o F, walSynced |-> Len(w \o F),
           data |-> d \o R, dataSynced |-> ds, ok |-> FALSE, commitFrame |-> TRUE]
     ELSE [wal |-> w \o F, walSynced |-> Len(w \o F),
           data |-> d \o R, dataSynced |-> Len(d \o R), ok |-> TRUE, commitFrame |-> TRUE]

(* DatabaseCore::commit_transaction(id): the transaction leaves the        *)
(* registry, then the storage engine commits it                            *)
commit_transaction(id, fault) ==
  /\ up
  /\ active[id] # NoTx
  /\ \E ixOrder \in Orders(ChangedIndexes(active[id])) :
       LET tx == active[id]
           r == storage_commit(tx, ixOrder, fault, wal, walSynced, data, dataSynced)
       IN /\ fault \in Faults(tx, ixOrder) \cup {NoFault}
          /\ Len(wal) + Len(TxFrames(tx, ixOrder)) <= MaxWal
          /\ Len(data) + Len(tx.operations) <= MaxData
          /\ wal' = r.wal
          /\ walSynced' = r.walSynced
          /\ data' = r.data
          /\ dataSynced' = r.dataSynced
          /\ okCommits' = IF r.ok THEN okCommits \cup {tx.uid} ELSE okCommits
          /\ errCommits' = IF r.ok THEN errCommits ELSE errCommits \cup {tx.uid}
          /\ wroteCommit' = IF r.commitFrame THEN wroteCommit \cup {tx.uid} ELSE wroteCommit
          /\ expected' = ExpectAfterCommit(tx, r.ok)
  /\ active' = [active EXCEPT ![id] = NoTx]
  /\ UNCHANGED <<last_id, disk_last_id, up, epoch, next_tx_id, held, rolledBack, begun, clones,
                 indexes, tmp_files, idx_files, indexErrors, changes, clean>>
  /\ UNCHANGED <<btvars, mdvars, thvars>>

(* the process dies inside commit_transaction, at the call named by fault *)
commit_crash(id, fault) ==
  /\ up
  /\ active[id] # NoTx
  /\ \E ixOrder \in Orders(ChangedIndexes(active[id])) :
       LET tx == active[id]
           r == storage_commit(tx, ixOrder, fault, wal, walSynced, data, dataSynced)
       IN /\ fault \in Faults(tx, ixOrder)
          /\ Len(wal) + Len(TxFrames(tx, ixOrder)) <= MaxWal
          /\ Len(data) + Len(tx.operations) <= MaxData
          /\ \E w \in Prefixes(r.walSynced, r.wal) : wal' = w /\ walSynced' = Len(w)
          /\ \E d \in Prefixes(r.dataSynced, r.data) : data' = d /\ dataSynced' = Len(d)
          /\ wroteCommit' = IF r.commitFrame THEN wroteCommit \cup {tx.uid} ELSE wroteCommit
          /\ expected' = ExpectAfterCommit(tx, FALSE)
  /\ up' = FALSE
  /\ active' = [i \in TxIds |-> NoTx]
  /\ held' = NoTx
  /\ indexes' = CollectionCore_new(Users)
  /\ clean' = FALSE
  /\ last_id' = disk_last_id
  /\ UNCHANGED <<epoch, next_tx_id, okCommits, errCommits, rolledBack, begun,
                 clones, tmp_files, idx_files, disk_last_id, indexErrors,
                 changes>>
  /\ UNCHANGED <<btvars, mdvars, thvars>>

(* ------------------------- two-phase commit ---------------------------- *)
(* with_transaction(id, |tx| tx.add_index_change(index_name, change)) *)
add_index_change(id, index_name, change) ==
  /\ up
  /\ active[id] # NoTx
  /\ is_active(active[id])
  /\ changes < MaxChanges
  /\ changes' = changes + 1
  /\ active' = [active EXCEPT ![id].index_changes[index_name] = Append(@, change)]
  /\ UNCHANGED <<up, epoch, data, dataSynced, wal, walSynced, next_tx_id, held,
                 okCommits, errCommits, rolledBack, wroteCommit, begun, clones, expected,
                 indexes, tmp_files, idx_files, last_id, disk_last_id, indexErrors, clean>>
  /\ UNCHANGED <<btvars, mdvars, thvars>>

(* CollectionCore::create_index("email", unique) on the caller's handle;   *)
(* create_btree_index returns Err when the handle holds the index already  *)
create_index(index_name, unique) ==
  /\ up
  /\ ~indexes[index_name].present
  /\ indexes' = [indexes EXCEPT ![index_name] = BPlusTree_new(unique)]
  /\ UNCHANGED <<up, epoch, data, dataSynced, wal, walSynced, next_tx_id, active, held,
                 okCommits, errCommits, rolledBack, wroteCommit, begun, clones, expected,
                 tmp_files, idx_files, last_id, disk_last_id, indexErrors, changes, clean>>
  /\ UNCHANGED <<btvars, mdvars, thvars>>

(* the registry after Phase 1 failed: the transaction is inserted again *)
reinsert_transaction_dropped(reg, id, tx) == reg

reinsert_transaction(reg, id, tx) == [reg EXCEPT ![id] = tx]

(* DatabaseCore::commit_transaction_with_indexes(id).  Phase 0 takes the   *)
(* transaction out of the registry; without index changes the storage      *)
(* commit is all there is, without operations the call returns             *)
(* TransactionAborted.  Phase 1 works on a new handle of the collection,   *)
(* Phase 2 is the storage commit, Phase 3 renames the temp files.          *)
commit_transaction_with_indexes(id) ==
  /\ up
  /\ active[id] # NoTx
  /\ \E order \in Orders(ChangedIndexes(active[id])),
        ixOrder \in Orders(ChangedIndexes(active[id])) :
       LET tx == active[id]
           r == storage_commit(tx, ixOrder, NoFault, wal, walSynced, data, dataSynced)
           p == prepare_indexes(tx, order, CollectionCore_new(collection_name(tx)),
                                <<>>, tmp_files)
           f == commit_prepared_changes(p.tmp, idx_files, p.prepared)
       IN /\ Len(wal) + Len(TxFrames(tx, ixOrder)) <= MaxWal
          /\ Len(data) + Len(tx.operations) <= MaxData
          /\ IF tx.index_changes # NoChanges /\ tx.operations = <<>>
             THEN /\ active' = [active EXCEPT ![id] = NoTx]
                  /\ errCommits' = errCommits \cup {tx.uid}
                  /\ UNCHANGED <<wal, walSynced, data, dataSynced, okCommits, wroteCommit,
                                 expected, tmp_files, idx_files, indexErrors>>
             ELSE IF tx.index_changes # NoChanges /\ ~p.ok
             THEN /\ active' = reinsert_transaction([active EXCEPT ![id] = NoTx], id, tx)
                  /\ tmp_files' = p.tmp
                  /\ indexErrors' = indexErrors \cup {tx.uid}
                  /\ UNCHANGED <<wal, walSynced, data, dataSynced, okCommits, errCommits,
                                 wroteCommit, expected, idx_files>>
             ELSE /\ active' = [active EXCEPT ![id] = NoTx]
                  /\ wal' = r.wal
                  /\ walSynced' = r.walSynced
                  /\ data' = r.data
                  /\ dataSynced' = r.dataSynced
                  /\ okCommits' = IF r.ok THEN okCommits \cup {tx.uid} ELSE okCommits
                  /\ errCommits' = IF r.ok THEN errCommits ELSE errCommits \cup {tx.uid}
                  /\ wroteCommit' = IF r.commitFrame THEN wroteCommit \cup {tx.uid}
                                    ELSE wroteCommit
                  /\ expected' = ExpectAfterCommit(tx, r.ok)
                  /\ tmp_files' = IF tx.index_changes # NoChanges /\ r.ok THEN f.tmp
                                  ELSE IF tx.index_changes # NoChanges
                                  THEN rollback_prepared_changes(p.tmp, p.prepared)
                                  ELSE tmp_files
                  /\ idx_files' = IF tx.index_changes # NoChanges /\ r.ok THEN f.idx
                                  ELSE idx_files
                  /\ UNCHANGED indexErrors
  /\ UNCHANGED <<up, epoch, next_tx_id, held, rolledBack, begun, clones, indexes, changes,
                 clean, last_id, disk_last_id>>
  /\ UNCHANGED <<btvars, mdvars, thvars>>

(* StorageEngine::rollback_transaction on the WAL (w, ws) *)
storage_rollback(tx, w, ws) ==
  IF ~is_active(tx)
  THEN [wal |-> w, walSynced |-> ws]
  ELSE [wal |-> Append(w, WALEntry(tx.id, "Abort", NoOp, NoIx, tx.uid)),
        walSynced |-> Len(w) + 1]

(* DatabaseCore::rollback_transaction(id) *)
rollback_transaction(id) ==
  /\ up
  /\ active[id] # NoTx
  /\ Len(wal) < MaxWal
  /\ LET r == storage_rollback(active[id], wal, walSynced)
     IN wal' = r.wal /\ walSynced' = r.walSynced
  /\ rolledBack' = rolledBack \cup {active[id].uid}
  /\ active' = [active EXCEPT ![id] = NoTx]
  /\ UNCHANGED <<up, epoch, data, dataSynced, next_tx_id, held,
                 okCommits, errCommits, wroteCommit, begun, clones, expected, clean>>
  /\ UNCHANGED ixvars
  /\ UNCHANGED <<btvars, mdvars, thvars>>

(* ------------------- writes outside transactions ----------------------- *)
(* the latest record of every _id, whatever its collection: the first     *)
(* pass of update_one and delete_one                                      *)
LatestAny(f, d) ==
  LET S == {i \in 1..Len(f) : f[i].id = d}
  IN IF S = {} THEN 0 ELSE SetMax(S)

(* CollectionCore::insert_one({email: key, value: v}) on the caller's      *)
(* handle: the id is last_id + 1 and last_id is advanced first; the _id    *)
(* index and then every other index of the handle take the document, an    *)
(* error of insert returning at once; only then the record is written      *)
insert_one(c, key, v) ==
  /\ up
  /\ last_id < MaxAutoId
  /\ Len(data) < MaxData
  /\ LET doc_id == last_id + 1
         r1 == BPlusTree_insert(indexes[IdIndexName(c)], doc_id, doc_id)
         r2 == IF indexes["users_email"].present
               THEN BPlusTree_insert(indexes["users_email"], key, doc_id)
               ELSE [ok |-> TRUE, tree |-> indexes["users_email"]]
     IN /\ last_id' = doc_id
        /\ indexes' = IF ~r1.ok THEN indexes
                      ELSE [indexes EXCEPT ![IdIndexName(c)] = r1.tree,
                                           !["users_email"] = r2.tree]
        /\ data' = IF r1.ok /\ r2.ok
                   THEN Append(data, [coll |-> c, id |-> doc_id, val |-> v,
                                      tomb |-> FALSE, src |-> NoUid, email |-> key])
                   ELSE data
        /\ expected' = [d \in DocIds |-> IF d = doc_id THEN NoExp ELSE expected[d]]
  /\ UNCHANGED <<up, epoch, dataSynced, wal, walSynced, next_tx_id, active, held,
                 okCommits, errCommits, rolledBack, wroteCommit, begun, clones, clean,
                 tmp_files, idx_files, disk_last_id, indexErrors, changes>>
  /\ UNCHANGED <<btvars, mdvars, thvars>>

(* CollectionCore::update_one({_id: d}, {$set: {v}}) *)
update_one(c, d, v) ==
  /\ up
  /\ LatestAny(data, d) # 0
  /\ ~data[LatestAny(data, d)].tomb
  /\ Len(data) + 2 <= MaxData
  /\ LET old == data[LatestAny(data, d)]
     IN data' = data \o <<[old EXCEPT !.tomb = TRUE, !.coll = c, !.src = NoUid],
                          [old EXCEPT !.val = v, !.coll = c, !.src = NoUid]>>
  /\ expected' = [x \in DocIds |-> IF x = d THEN NoExp ELSE expected[x]]
  /\ UNCHANGED <<up, epoch, dataSynced, wal, walSynced, next_tx_id, active, held,
                 okCommits, errCommits, rolledBack, wroteCommit, begun, clones, clean>>
  /\ UNCHANGED ixvars
  /\ UNCHANGED <<btvars, mdvars, thvars>>

(* CollectionCore::delete_one({_id: d}) *)
delete_one(c, d) ==
  /\ up
  /\ LatestAny(data, d) # 0
  /\ ~data[LatestAny(data, d)].tomb
  /\ Len(data) + 1 <= MaxData
  /\ LET old == data[LatestAny(data, d)]
     IN data' = Append(data, [old EXCEPT !.tomb = TRUE, !.coll = c, !.src = NoUid])
  /\ expected' = [x \in DocIds |-> IF x = d THEN NoExp ELSE expected[x]]
  /\ UNCHANGED <<up, epoch, dataSynced, wal, walSynced, next_tx_id, active, held,
                 okCommits, errCommits, rolledBack, wroteCommit, begun, clones, clean>>
  /\ UNCHANGED ixvars
  /\ UNCHANGED <<btvars, mdvars, thvars>>

Next ==
  \/ Open
  \/ OpenCrash
  \/ Close
  \/ Crash
  \/ begin_transaction
  \/ \E id \in TxIds, op \in Operation : add_operation(id, op)
  \/ \E id \in TxIds, st \in {"none", "wal", "flush", "apply", "sync"}, k \in 0..(MaxOps + 2) :
       commit_transaction(id, [stage |-> st, k |-> k])
  \/ \E id \in TxIds, st \in {"wal", "flush", "apply", "sync"}, k \in 0..(MaxOps + 2) :
       commit_crash(id, [stage |-> st, k |-> k])
  \/ \E id \in TxIds : rollback_transaction(id)
  \/ \E d \in DocIds, v \in Vals : update_one(Users, d, v)
  \/ \E d \in DocIds : delete_one(Users, d)

(* the durability specification: transactions, I/O errors and crashes in   *)
(* commit, writes outside transactions, close, crash and reopen            *)
Spec == Init /\ [][Next]_vars

NextRegistry ==
  \/ Open
  \/ Close
  \/ begin_transaction
  \/ \E id \in TxIds, op \in Operation : add_operation(id, op)
  \/ \E id \in TxIds : get_transaction(id)
  \/ update_transaction
  \/ \E id \in TxIds : commit_transaction(id, NoFault)
  \/ \E id \in TxIds : commit_transaction_with_indexes(id)
  \/ \E id \in TxIds : rollback_transaction(id)

(* the registry specification: every call of the transaction API of        *)
(* DatabaseCore, copies of transactions held by the caller included        *)
SpecRegistry == Init /\ [][NextRegistry]_vars

NextIndexes ==
  \/ Open
  \/ Close
  \/ (begun < MaxIndexedTx /\ begin_transaction)
  \/ \E id \in TxIds, op \in Operation : add_operation(id, op)
  \/ \E id \in TxIds, n \in IndexNames, c \in IndexChange : add_index_change(id, n, c)
  \/ \E u \in BOOLEAN : create_index("users_email", u)
  \/ \E k \in Keys, v \in Vals : (last_id < NumIds /\ insert_one(Users, k, v))
  \/ \E id \in TxIds : commit_transaction_with_indexes(id)
  \/ \E id \in TxIds : rollback_transaction(id)

(* the two-phase commit specification: transactions that carry index       *)
(* changes, committed with commit_transaction_with_indexes                 *)
SpecIndexes == Init /\ [][NextIndexes]_vars

(* ------------------------- auto-generated ids -------------------------- *)
(* CollectionCore::insert_one_tx(doc, tx) on the transaction id of the     *)
(* registry: the id is last_id + 1, last_id is advanced, and the Insert is *)
(* buffered in the transaction                                             *)
insert_one_tx(c, id) ==
  /\ up
  /\ active[id] # NoTx
  /\ last_id < MaxAutoId
  /\ Len(active[id].operations) < MaxOps
  /\ last_id' = last_id + 1
  /\ active' = [active EXCEPT
                  ![id] = Transaction_add_operation(
                            @, [kind |-> "Insert", collection |-> c, doc_id |-> last_id + 1,
                                doc |-> "a"]).tx]
  /\ UNCHANGED <<up, epoch, data, dataSynced, wal, walSynced, next_tx_id, held,
                 okCommits, errCommits, rolledBack, wroteCommit, begun, clones, expected,
                 clean, indexes, tmp_files, idx_files, disk_last_id, indexErrors, changes>>
  /\ UNCHANGED <<btvars, mdvars, thvars>>

NextAutoId ==
  \/ Open
  \/ Close
  \/ Crash
  \/ begin_transaction
  \/ \E k \in Keys, v \in Vals : insert_one(Users, k, v)
  \/ \E id \in TxIds : insert_one_tx(Users, id)
  \/ \E id \in TxIds : commit_transaction(id, NoFault)
  \/ \E id \in TxIds : rollback_transaction(id)

(* the id specification: documents that get their _id from the collection, *)
(* in and outside transactions, over crashes and reopens                   *)
SpecAutoId == Init /\ [][NextAutoId]_vars

(* ------------------------- two collections ----------------------------- *)
(* CollectionCore::insert_one on a handle of the collection orders, which  *)
(* has a last_id and an _id index of its own: in one process lifetime its  *)
(* last_id is the number of documents inserted into it.  Only the record   *)
(* it appends to the shared data file is kept.                             *)
orders_insert_one(v) ==
  /\ up
  /\ Cardinality({i \in 1..Len(data) : data[i].coll = OrdersName /\ ~data[i].tomb
                                        /\ data[i].val = "a"}) < MaxAutoId
  /\ Len(data) < MaxData
  /\ data' = Append(data,
                    [coll |-> OrdersName,
                     id |-> Cardinality({i \in 1..Len(data) :
                                           data[i].coll = OrdersName /\ ~data[i].tomb
                                           /\ data[i].val = "a"}) + 1,
                     val |-> v, tomb |-> FALSE, src |-> NoUid, email |-> 0])
  /\ UNCHANGED <<up, epoch, dataSynced, wal, walSynced, next_tx_id, active, held,
                 okCommits, errCommits, rolledBack, wroteCommit, begun, clones, clean,
                 expected>>
  /\ UNCHANGED ixvars
  /\ UNCHANGED <<btvars, mdvars, thvars>>

NextIsolation ==
  \/ \E k \in Keys : insert_one(Users, k, "a")
  \/ orders_insert_one("a")
  \/ \E c \in {Users, OrdersName}, d \in AllIds : update_one(c, d, "b")
  \/ \E c \in {Users, OrdersName}, d \in AllIds : delete_one(c, d)

(* the isolation specification: handles of two collections of one database *)
(* file, each inserting, updating and deleting its documents               *)
SpecIsolation == Init /\ [][NextIsolation]_vars

(* ------------------- two-phase commit with failing calls --------------- *)
(* Phase 1 in which prepare_changes of the index failAt returns an error:  *)
(* created says whether the temp file was opened (created and truncated)   *)
(* before the failing call (save_to_file or sync_all).  The temp files     *)
(* pushed to prepared_indexes so far are removed.                          *)
RECURSIVE prepare_indexes_failing(_, _, _, _, _, _, _)
prepare_indexes_failing(tx, order, handle, prepared, tmp, failAt, created) ==
  IF order = <<>>
  THEN [ok |-> TRUE, failed |-> FALSE, prepared |-> prepared, tmp |-> tmp]
  ELSE IF ~handle[Head(order)].present
       THEN prepare_indexes_failing(tx, Tail(order), handle, prepared, tmp, failAt, created)
       ELSE LET n == Head(order)
                r == apply_changes(handle[n], tx.index_changes[n])
            IN IF ~r.ok
               THEN [ok |-> FALSE, failed |-> FALSE, prepared |-> prepared,
                     tmp |-> rollback_prepared_changes(tmp, prepared)]
               ELSE IF n = failAt
               THEN [ok |-> FALSE, failed |-> TRUE, prepared |-> prepared,
                     tmp |-> rollback_prepared_changes(
                               IF created THEN [tmp EXCEPT ![n] = BPlusTree_new(r.tree.unique)]
                               ELSE tmp,
                               prepared)]
               ELSE prepare_indexes_failing(tx, Tail(order), handle, Append(prepared, n),
                                            [tmp EXCEPT ![n] = r.tree], failAt, created)

(* commit_transaction_with_indexes(id) in which prepare_changes fails for  *)
(* the index failAt: the transaction is inserted into the registry again   *)
(* and the error is returned                                               *)
commit_with_indexes_prepare_error(id, failAt, created) ==
  /\ up
  /\ active[id] # NoTx
  /\ active[id].index_changes # NoChanges
  /\ active[id].operations # <<>>
  /\ \E order \in Orders(ChangedIndexes(active[id])) :
       LET tx == active[id]
           p == prepare_indexes_failing(tx, order, CollectionCore_new(collection_name(tx)),
                                        <<>>, tmp_files, failAt, created)
       IN /\ p.failed
          /\ active' = reinsert_transaction([active EXCEPT ![id] = NoTx], id, tx)
          /\ tmp_files' = p.tmp
          /\ errCommits' = errCommits \cup {tx.uid}
  /\ UNCHANGED <<wal, walSynced, data, dataSynced, okCommits, wroteCommit, expected,
                 idx_files, indexErrors>>
  /\ UNCHANGED <<up, epoch, next_tx_id, held, rolledBack, begun, clones, indexes, changes,
                 clean, last_id, disk_last_id>>
  /\ UNCHANGED <<btvars, mdvars, thvars>>

(* commit_transaction_with_indexes(id) in which Phase 1 succeeds and the   *)
(* storage commit of Phase 2 fails at the call named by fault: the temp    *)
(* files are removed, the error is returned                                *)
commit_with_indexes_storage_error(id, fault) ==
  /\ up
  /\ active[id] # NoTx
  /\ active[id].index_changes # NoChanges
  /\ active[id].operations # <<>>
  /\ \E order \in Orders(ChangedIndexes(active[id])),
        ixOrder \in Orders(ChangedIndexes(active[id])) :
       LET tx == active[id]
           r == storage_commit(tx, ixOrder, fault, wal, walSynced, data, dataSynced)
           p == prepare_indexes(tx, order, CollectionCore_new(collection_name(tx)),
                                <<>>, tmp_files)
       IN /\ p.ok
          /\ fault \in Faults(tx, ixOrder)
          /\ Len(wal) + Len(TxFrames(tx, ixOrder)) <= MaxWal
          /\ Len(data) + Len(tx.operations) <= MaxData
          /\ wal' = r.wal
          /\ walSynced' = r.walSynced
          /\ data' = r.data
          /\ dataSynced' = r.dataSynced
          /\ errCommits' = errCommits \cup {tx.uid}
          /\ wroteCommit' = IF r.commitFrame THEN wroteCommit \cup {tx.uid} ELSE wroteCommit
          /\ expected' = ExpectAfterCommit(tx, FALSE)
          /\ tmp_files' = rollback_prepared_changes(p.tmp, p.prepared)
  /\ active' = [active EXCEPT ![id] = NoTx]
  /\ UNCHANGED <<okCommits, idx_files, indexErrors>>
  /\ UNCHANGED <<up, epoch, next_tx_id, held, rolledBack, begun, clones, indexes, changes,
                 clean, last_id, disk_last_id>>
  /\ UNCHANGED <<btvars, mdvars, thvars>>

NextIndexFaults ==
  \/ (begun < MaxIndexedTx /\ begin_transaction)
  \/ \E id \in TxIds, op \in Operation : add_operation(id, op)
  \/ \E id \in TxIds, n \in IndexNames, c \in IndexChange : add_index_change(id, n, c)
  \/ \E id \in TxIds : commit_transaction_with_indexes(id)
  \/ \E id \in TxIds, n \in IndexNames, created \in BOOLEAN :
       commit_with_indexes_prepare_error(id, n, created)
  \/ \E id \in TxIds, st \in {"wal", "flush", "apply", "sync"}, k \in 0..(MaxOps + MaxChanges + 2) :
       commit_with_indexes_storage_error(id, [stage |-> st, k |-> k])
  \/ \E id \in TxIds : rollback_transaction(id)

(* the two-phase commit with errors of prepare_changes and of the storage  *)
(* commit                                                                  *)
SpecIndexFaults == Init /\ [][NextIndexFaults]_vars

(* ------------------- two-phase commit with crashes --------------------- *)
(* the index files when the process dies in the named phase of             *)
(* commit_transaction_with_indexes with the temp files p prepared: only    *)
(* Phase 3, which follows the Ok of the storage commit, renames temp files *)
(* (j of them so far) onto their final paths                               *)
files_at_crash_renamed_early(p, idx, phase, j) ==
  commit_prepared_changes(p.tmp, idx, SubSeq(p.prepared, 1, Len(p.prepared)))

files_at_crash(p, idx, phase, j) ==
  IF phase = "finalize"
  THEN commit_prepared_changes(p.tmp, idx, SubSeq(p.prepared, 1, j))
  ELSE [tmp |-> p.tmp, idx |-> idx]

(* the process dies inside commit_transaction_with_indexes(id): in Phase 1 *)
(* after k of the changed indexes were handled, in Phase 2 at the call of  *)
(* the storage commit named by fault, or in Phase 3 after k renames.  Of   *)
(* the WAL and the data file the synced part and any part of the rest      *)
(* survive; the temp files were synced by prepare_changes.                 *)
commit_with_indexes_crash(id, phase, k, fault) ==
  /\ up
  /\ active[id] # NoTx
  /\ active[id].index_changes # NoChanges
  /\ active[id].operations # <<>>
  /\ \E order \in Orders(ChangedIndexes(active[id])),
        ixOrder \in Orders(ChangedIndexes(active[id])) :
       LET tx == active[id]
           n == IF phase = "prepare" THEN k ELSE Len(order)
           p == prepare_indexes(tx, SubSeq(order, 1, n),
                                CollectionCore_new(collection_name(tx)), <<>>, tmp_files)
           r == IF phase = "prepare"
                THEN [wal |-> wal, walSynced |-> walSynced, data |-> data,
                      dataSynced |-> dataSynced, ok |-> FALSE, commitFrame |-> FALSE]
                ELSE storage_commit(tx, ixOrder, IF phase = "commit" THEN fault ELSE NoFault,
                                    wal, walSynced, data, dataSynced)
           f == files_at_crash(p, idx_files, phase, k)
       IN /\ phase = "prepare" => k \in 0..Len(order) /\ fault = NoFault
          /\ phase = "commit" => k = 0 /\ fault \in Faults(tx, ixOrder)
          /\ p.ok
          /\ phase = "finalize" => k \in 0..Len(p.prepared) /\ fault = NoFault
          /\ Len(wal) + Len(TxFrames(tx, ixOrder)) <= MaxWal
          /\ Len(data) + Len(tx.operations) <= MaxData
          /\ \E w \in Prefixes(r.walSynced, r.wal) : wal' = w /\ walSynced' = Len(w)
          /\ \E d \in Prefixes(r.dataSynced, r.data) : data' = d /\ dataSynced' = Len(d)
          /\ wroteCommit' = IF r.commitFrame THEN wroteCommit \cup {tx.uid} ELSE wroteCommit
          /\ expected' = ExpectAfterCommit(tx, FALSE)
          /\ tmp_files' = f.tmp
          /\ idx_files' = f.idx
  /\ up' = FALSE
  /\ active' = [i \in TxIds |-> NoTx]
  /\ held' = NoTx
  /\ indexes' = CollectionCore_new(Users)
  /\ clean' = FALSE
  /\ last_id' = disk_last_id
  /\ UNCHANGED <<epoch, next_tx_id, okCommits, errCommits, rolledBack, begun,
                 clones, disk_last_id, indexErrors, changes>>
  /\ UNCHANGED <<btvars, mdvars, thvars>>

NextIndexCrash ==
  \/ Open
  \/ Close
  \/ (begun < MaxIndexedTx /\ begin_transaction)
  \/ \E id \in TxIds, op \in Operation : add_operation(id, op)
  \/ \E id \in TxIds, n \in IndexNames, c \in IndexChange : add_index_change(id, n, c)
  \/ \E id \in TxIds : commit_transaction_with_indexes(id)
  \/ \E id \in TxIds, phase \in {"prepare", "commit", "finalize"}, k \in 0..2,
        fault \in {[stage |-> st, k |-> j] :
                     st \in {"none", "wal", "flush", "apply", "sync"},
                     j \in 0..(MaxOps + MaxChanges + 2)} :
       commit_with_indexes_crash(id, phase, k, fault)

(* the two-phase commit with crashes: the process may die in any phase of  *)
(* commit_transaction_with_indexes and the database is opened again        *)
SpecIndexCrash == Init /\ [][NextIndexCrash]_vars

(* ------------------------------ compaction ----------------------------- *)
NoDoc == [coll |-> "", id |-> 0, val |-> "", tomb |-> TRUE, src |-> NoUid, email |-> 0]

NoDocs == [d \in AllIds |-> NoDoc]

(* flush_compaction_chunk: the documents of docs_by_id that are no         *)
(* tombstones, written in the iteration order of the map                   *)
flush_compaction_chunk(docs_by_id, idOrder) ==
  LET kept == SelectSeq(idOrder, LAMBDA d : docs_by_id[d] # NoDoc /\ ~docs_by_id[d].tomb)
  IN [k \in 1..Len(kept) |-> docs_by_id[kept[k]]]

(* the scan of compact_with_config over the records of collection c from   *)
(* record i on: a record of the collection replaces the entry of its _id   *)
(* in docs_by_id; when chunk_count reaches chunk_size the map is flushed   *)
(* and cleared; what is left at the end is flushed                         *)
RECURSIVE compact_scan(_, _, _, _, _, _, _)
compact_scan(f, i, c, docs_by_id, chunk_count, chunk_size, idOrder) ==
  IF i > Len(f)
  THEN flush_compaction_chunk(docs_by_id, idOrder)
  ELSE IF f[i].coll # c
  THEN compact_scan(f, i + 1, c, docs_by_id, chunk_count, chunk_size, idOrder)
  ELSE IF chunk_count + 1 >= chunk_size
  THEN flush_compaction_chunk([docs_by_id EXCEPT ![f[i].id] = f[i]], idOrder)
       \o compact_scan(f, i + 1, c, NoDocs, 0, chunk_size, idOrder)
  ELSE compact_scan(f, i + 1, c, [docs_by_id EXCEPT ![f[i].id] = f[i]], chunk_count + 1,
                    chunk_size, idOrder)

(* the catalog compaction builds: cleared, then document_catalog.insert of  *)
(* every document flush_compaction_chunk writes, a later insert of an _id  *)
(* replacing the earlier one; 0 is no entry                                *)
compact_catalog(f) == [d \in AllIds |-> LatestIdx(f, Users, d)]

(* StorageEngine::compact_with_config(config): the new file holds what     *)
(* the scan wrote, is synced and renamed onto the database file            *)
compact_with_config(chunk_size, idOrder) ==
  /\ up
  /\ data' = compact_scan(data, 1, Users, NoDocs, 0, chunk_size, idOrder)
  /\ dataSynced' = Len(data')
  /\ document_catalog' = compact_catalog(data')
  /\ UNCHANGED <<up, epoch, wal, walSynced, next_tx_id, active, held, okCommits,
                 errCommits, rolledBack, wroteCommit, begun, expected, clones, clean>>
  /\ UNCHANGED ixvars
  /\ UNCHANGED <<btvars, thvars, collections, file_len, blocks>>

(* find({}) of a handle of collection c: the live documents by _id *)
ViewAll(f, c) ==
  {f[LatestIdx(f, c, d)] : d \in {x \in AllIds : Live(f, c, x)}}

NextCompaction ==
  \/ \E k \in Keys, v \in Vals : insert_one(Users, k, v)
  \/ \E d \in AllIds, v \in Vals : update_one(Users, d, v)
  \/ \E d \in AllIds : delete_one(Users, d)
  \/ \E n \in 1..MaxChunk, o \in Orders(AllIds) : compact_with_config(n, o)

(* the compaction specification: writes of a collection handle and compact *)
SpecCompaction == Init /\ [][NextCompaction]_vars

NextCatalog ==
  \/ Open
  \/ Close
  \/ begin_transaction
  \/ \E id \in TxIds, op \in Operation : add_operation(id, op)
  \/ \E id \in TxIds : commit_transaction(id, NoFault)
  \/ \E n \in 1..MaxChunk, o \in Orders(AllIds) : compact_with_config(n, o)

(* the catalog specification: committed transactions, recovery and compact *)
SpecCatalog == Init /\ [][NextCatalog]_vars

(* --------------------------- find with an index ------------------------ *)
(* the loop of BPlusTree::range_scan over the leaf from position i on *)
RECURSIVE range_scan_from(_, _, _, _, _, _)
range_scan_from(tree, i, start, end, inclusive_start, inclusive_end) ==
  IF i > Len(tree.keys) THEN <<>>
  ELSE IF tree.keys[i] < start \/ (~inclusive_start /\ tree.keys[i] = start)
  THEN range_scan_from(tree, i + 1, start, end, inclusive_start, inclusive_end)
  ELSE IF tree.keys[i] > end \/ (~inclusive_end /\ tree.keys[i] = end)
  THEN <<>>
  ELSE <<tree.document_ids[i]>>
       \o range_scan_from(tree, i + 1, start, end, inclusive_start, inclusive_end)

range_scan(tree, start, end, inclusive_start, inclusive_end) ==
  range_scan_from(tree, 1, start, end, inclusive_start, inclusive_end)

(* a query on the field email with one operator: {email: k} or             *)
(* {email: {$gt | $gte | $lt | $lte: k}}                                   *)
Queries == [op : {"eq", "gt", "gte", "lt", "lte"}, key : Keys]

(* IndexKey::Null, below every key, and the default end key, above them *)
KeyNull == 0

KeyTop == SetMax(Keys) + 1

(* Query::matches on a document with the field email *)
matches(q, doc) ==
  /\ doc.email # 0
  /\ CASE q.op = "eq" -> doc.email = q.key
       [] q.op = "gt" -> doc.email > q.key
       [] q.op = "gte" -> doc.email >= q.key
       [] q.op = "lt" -> doc.email < q.key
       [] OTHER -> doc.email <= q.key

(* QueryPlanner::analyze_query: the bounds of the plan for q *)
analyze_query(q) ==
  IF q.op = "eq"
  THEN [start |-> q.key, end |-> q.key, inclusive_start |-> TRUE, inclusive_end |-> TRUE]
  ELSE [start |-> IF q.op \in {"gt", "gte"} THEN q.key ELSE KeyNull,
        end |-> IF q.op \in {"lt", "lte"} THEN q.key ELSE KeyTop,
        inclusive_start |-> q.op # "gt",
        inclusive_end |-> q.op # "lt"]

(* find_with_index: the ids the index yields for the plan, of these the    *)
(* ones whose latest record in collection c is no tombstone and matches    *)
index_doc_ids(handle, n, q) ==
  LET plan == analyze_query(q)
  IN range_scan(handle[n], plan.start, plan.end, plan.inclusive_start, plan.inclusive_end)

fetch_by_ids(f, c, doc_ids, q) ==
  {f[LatestIdx(f, c, doc_ids[i])] :
     i \in {j \in 1..Len(doc_ids) :
              /\ LatestIdx(f, c, doc_ids[j]) # 0
              /\ ~f[LatestIdx(f, c, doc_ids[j])].tomb
              /\ matches(q, f[LatestIdx(f, c, doc_ids[j])])}}

find_with_index(handle, f, c, n, q) == fetch_by_ids(f, c, index_doc_ids(handle, n, q), q)

(* the collection scan of find: filter_documents over scan_documents *)
find_by_scan(f, c, q) == {doc \in ViewAll(f, c) : matches(q, doc)}

(* CollectionCore::find(q) on the handle: by index when the handle holds   *)
(* an index on the field, else by scan                                     *)
find(handle, f, c, q) ==
  IF handle["users_email"].present
  THEN find_with_index(handle, f, c, "users_email", q)
  ELSE find_by_scan(f, c, q)

(* the (key, id) entries of an index *)
Entries(tree) == {<<tree.keys[i], tree.document_ids[i]>> : i \in 1..Len(tree.keys)}

NextCollection ==
  \/ \E u \in BOOLEAN : create_index("users_email", u)
  \/ \E k \in Keys, v \in Vals : insert_one(Users, k, v)
  \/ \E d \in AllIds, v \in Vals : update_one(Users, d, v)
  \/ \E d \in AllIds : delete_one(Users, d)

(* the collection specification: one handle of the collection, its         *)
(* indexes and its writes                                                  *)
SpecCollection == Init /\ [][NextCollection]_vars

(* ------------------- threads on one collection handle ------------------ *)
(* Each thread runs calls of CollectionCore on the same handle.  A step    *)
(* runs from one lock acquisition to the next.  write() waits until no     *)
(* thread holds the lock.  indexes.write() is taken and dropped inside one *)
(* step, so indexes.read() never finds a writer holding the lock.          *)
HFrame ==
  /\ UNCHANGED <<up, epoch, dataSynced, wal, walSynced, next_tx_id, active, held,
                 okCommits, errCommits, rolledBack, wroteCommit, begun, clones, clean,
                 expected, tmp_files, idx_files, disk_last_id, indexErrors, changes>>
  /\ UNCHANGED <<btvars, mdvars, tx_result, pc, th_tx, th_k, returned, fsyncs, pvars>>

HGoto(t, label) == hpc' = [hpc EXCEPT ![t] = label]

IndexesFree == \A t \in Threads : idx_readers[t] = 0

(* create_index(email, unique): indexes.write() and create_btree_index *)
h_create_index(t, unique) ==
  /\ hpc[t] = "idle"
  /\ IndexesFree
  /\ ~indexes["users_email"].present
  /\ indexes' = [indexes EXCEPT !["users_email"] = BPlusTree_new(unique)]
  /\ UNCHANGED <<data, last_id, storage_lock, hvars>>
  /\ HFrame

(* insert_one: storage.write(), the id from last_id, last_id += 1 *)
h_insert_begin(t, key, v) ==
  /\ hpc[t] = "idle"
  /\ last_id < MaxAutoId
  /\ Len(data) < MaxData
  /\ storage_lock = NoThread
  /\ storage_lock' = t
  /\ last_id' = last_id + 1
  /\ h_loc' = [h_loc EXCEPT ![t] = [NoLoc EXCEPT !.key = key, !.val = v,
                                                 !.doc_id = last_id + 1]]
  /\ HGoto(t, "insert_indexes")
  /\ UNCHANGED <<data, indexes, idx_readers>>
  /\ HFrame

(* insert_one: indexes.write(), the inserts into the _id index and the     *)
(* other indexes; an Err returns from the call and drops both guards       *)
h_insert_indexes(t) ==
  /\ hpc[t] = "insert_indexes"
  /\ IndexesFree
  /\ LET r1 == BPlusTree_insert(indexes["users_id"], h_loc[t].doc_id, h_loc[t].doc_id)
         r2 == IF indexes["users_email"].present
               THEN BPlusTree_insert(indexes["users_email"], h_loc[t].key, h_loc[t].doc_id)
               ELSE [ok |-> TRUE, tree |-> indexes["users_email"]]
     IN /\ indexes' = IF ~r1.ok THEN indexes
                      ELSE [indexes EXCEPT !["users_id"] = r1.tree,
                                           !["users_email"] = r2.tree]
        /\ IF r1.ok /\ r2.ok
           THEN HGoto(t, "insert_write") /\ UNCHANGED <<storage_lock, h_loc>>
           ELSE /\ HGoto(t, "idle")
                /\ storage_lock' = NoThread
                /\ h_loc' = [h_loc EXCEPT ![t] = NoLoc]
  /\ UNCHANGED <<data, last_id, idx_readers>>
  /\ HFrame

(* insert_one: write_data, Ok(doc_id); the storage guard is dropped *)
h_insert_write(t) ==
  /\ hpc[t] = "insert_write"
  /\ data' = Append(data, [coll |-> Users, id |-> h_loc[t].doc_id, val |-> h_loc[t].val,
                           tomb |-> FALSE, src |-> NoUid, email |-> h_loc[t].key])
  /\ storage_lock' = NoThread
  /\ h_loc' = [h_loc EXCEPT ![t] = NoLoc]
  /\ HGoto(t, "idle")
  /\ UNCHANGED <<indexes, last_id, idx_readers>>
  /\ HFrame

(* find({email: key}): indexes.read() and analyze_query.  With an index on *)
(* the field the guard is kept over find_with_index; without one it is     *)
(* dropped before the scan                                                 *)
h_find_begin(t, key) ==
  /\ hpc[t] = "idle"
  /\ h_loc' = [h_loc EXCEPT ![t] = [NoLoc EXCEPT !.key = key]]
  /\ IF indexes["users_email"].present
     THEN /\ idx_readers' = [idx_readers EXCEPT ![t] = 1]
          /\ HGoto(t, "find_index")
     ELSE /\ HGoto(t, "find_scan")
          /\ UNCHANGED idx_readers
  /\ UNCHANGED <<data, indexes, last_id, storage_lock>>
  /\ HFrame

(* find_with_index: indexes.read() once more, range_scan, the inner guard  *)
(* dropped                                                                 *)
h_find_index(t) ==
  /\ hpc[t] = "find_index"
  /\ h_loc' = [h_loc EXCEPT ![t].doc_ids =
                 index_doc_ids(indexes, "users_email", [op |-> "eq", key |-> h_loc[t].key])]
  /\ HGoto(t, "find_fetch")
  /\ UNCHANGED <<data, indexes, last_id, storage_lock, idx_readers>>
  /\ HFrame

(* find_with_index: storage.write(), the documents of the ids; the call    *)
(* returns and the guards of storage and of find are dropped               *)
h_find_fetch(t) ==
  /\ hpc[t] = "find_fetch"
  /\ storage_lock = NoThread
  /\ idx_readers' = [idx_readers EXCEPT ![t] = 0]
  /\ h_loc' = [h_loc EXCEPT ![t] = NoLoc]
  /\ HGoto(t, "idle")
  /\ UNCHANGED <<data, indexes, last_id, storage_lock>>
  /\ HFrame

(* find by scan: scan_documents takes storage.write() and drops it *)
h_find_scan(t) ==
  /\ hpc[t] = "find_scan"
  /\ storage_lock = NoThread
  /\ h_loc' = [h_loc EXCEPT ![t] = NoLoc]
  /\ HGoto(t, "idle")
  /\ UNCHANGED <<data, indexes, last_id, storage_lock, idx_readers>>
  /\ HFrame

HandleStep(t) ==
  \/ \E u \in BOOLEAN : h_create_index(t, u)
  \/ \E k \in Keys, v \in Vals : h_insert_begin(t, k, v)
  \/ h_insert_indexes(t)
  \/ h_insert_write(t)
  \/ \E k \in Keys : h_find_begin(t, k)
  \/ h_find_index(t)
  \/ h_find_fetch(t)
  \/ h_find_scan(t)

NextHandle == \E t \in Threads : HandleStep(t)

(* a call that has begun goes on whenever the lock it waits for is free    *)
(* again and again                                                         *)
HandleReturns(t) ==
  \/ h_insert_indexes(t)
  \/ h_insert_write(t)
  \/ h_find_index(t)
  \/ h_find_fetch(t)
  \/ h_find_scan(t)

(* the handle specification: two threads calling create_index, insert_one  *)
(* and find on one CollectionCore                                          *)
SpecHandle ==
  Init /\ [][NextHandle]_vars /\ \A t \in Threads : SF_vars(HandleReturns(t))

(* ------------------------- metadata and file layout -------------------- *)
(* bytes of the decimal form of n *)
RECURSIVE Digits(_)
Digits(n) == IF n < 10 THEN 1 ELSE 1 + Digits(n \div 10)

NameLen(name) == CASE name = "users" -> 5 [] name = "orders" -> 6 [] OTHER -> 4

(* bytes of serde_json::to_vec(meta) for a CollectionMeta with no          *)
(* documents: {"name":"..","document_count":0,"data_offset":..,             *)
(* "index_offset":..,"last_id":0,"document_catalog":{},"indexes":[]}       *)
MetaFixedBytes == 108

MetaBytes(name, meta) ==
  MetaFixedBytes + NameLen(name) + Digits(meta.data_offset) + Digits(meta.index_offset)

RECURSIVE SumBytes(_, _)
SumBytes(colls, names) ==
  IF names = {} THEN 0
  ELSE LET n == CHOOSE x \in names : TRUE
       IN (IF colls[n].present THEN 4 + MetaBytes(n, colls[n]) ELSE 0)
          + SumBytes(colls, names \ {n})

(* write_metadata: header and every collection's length-prefixed meta      *)
(* written from offset 0; the offset after the last byte is returned       *)
write_metadata(colls) == HeaderBytes + SumBytes(colls, CollNames)

set_offsets(colls, off) ==
  [n \in CollNames |->
     IF colls[n].present THEN [colls[n] EXCEPT !.data_offset = off, !.index_offset = off]
     ELSE colls[n]]

(* the loop of flush_metadata with n iterations left: the collections, the *)
(* metadata end and the highest offset any write_metadata reached          *)
RECURSIVE flush_loop(_, _, _, _)
flush_loop(colls, current_metadata_end, written, n) ==
  IF n = 0
  THEN [collections |-> colls, metadata_end |-> current_metadata_end, written |-> written]
  ELSE LET c2 == set_offsets(colls, current_metadata_end)
           new_metadata_end == write_metadata(c2)
           w2 == IF new_metadata_end > written THEN new_metadata_end ELSE written
       IN IF new_metadata_end = current_metadata_end
          THEN [collections |-> c2, metadata_end |-> current_metadata_end, written |-> w2]
          ELSE flush_loop(c2, new_metadata_end, w2, n - 1)

(* flush_metadata on collections colls and a file of length len with the   *)
(* blocks bs: a block that a write_metadata reached, or that lies beyond   *)
(* the new end of the file, is no longer intact                            *)
flush_metadata(colls, len, bs) ==
  LET r == flush_loop(colls, write_metadata(colls), write_metadata(colls), 5)
      grown == IF r.written > len THEN r.written ELSE len
      newlen == IF len <= r.metadata_end THEN r.metadata_end ELSE grown
  IN [collections |-> r.collections,
      file_len |-> newlen,
      blocks |-> [i \in 1..Len(bs) |->
                    [bs[i] EXCEPT !.intact = /\ bs[i].intact
                                             /\ bs[i].offset >= r.written
                                             /\ bs[i].offset + bs[i].len <= newlen]]]

(* StorageEngine::write_data(data) with n bytes of data *)
write_data(n) ==
  /\ Len(blocks) < MaxBlocks
  /\ blocks' = Append(blocks, [offset |-> file_len, len |-> 4 + n, intact |-> TRUE])
  /\ file_len' = file_len + 4 + n
  /\ UNCHANGED collections
  /\ UNCHANGED <<dbvars, btvars, thvars, document_catalog>>

(* StorageEngine::create_collection(name): Err when the name exists *)
create_collection(name) ==
  /\ ~collections[name].present
  /\ LET r == flush_metadata([collections EXCEPT ![name] =
                                [present |-> TRUE, data_offset |-> 0, index_offset |-> 0]],
                             file_len, blocks)
     IN collections' = r.collections /\ file_len' = r.file_len /\ blocks' = r.blocks
  /\ UNCHANGED <<dbvars, btvars, thvars, document_catalog>>

(* StorageEngine::drop_collection(name): Err when there is no such name *)
drop_collection(name) ==
  /\ collections[name].present
  /\ LET r == flush_metadata([collections EXCEPT ![name] = NoMeta], file_len, blocks)
     IN collections' = r.collections /\ file_len' = r.file_len /\ blocks' = r.blocks
  /\ UNCHANGED <<dbvars, btvars, thvars, document_catalog>>

(* StorageEngine::flush *)
flush ==
  /\ LET r == flush_metadata(collections, file_len, blocks)
     IN collections' = r.collections /\ file_len' = r.file_len /\ blocks' = r.blocks
  /\ UNCHANGED <<dbvars, btvars, thvars, document_catalog>>

NextMetadata ==
  \/ \E n \in DataLens : write_data(n)
  \/ \E name \in CollNames : create_collection(name)
  \/ \E name \in CollNames : drop_collection(name)
  \/ flush

(* the file layout specification: a StorageEngine on a new file, blocks    *)
(* written with write_data, collections created and dropped                *)
SpecMetadata == Init /\ [][NextMetadata]_vars

(* ------------------------- a BPlusTree on its own ---------------------- *)
(* The index users_email of the handle, called directly.  The positions    *)
(* leaf.keys.binary_search(key) may return as Ok(pos): with several equal  *)
(* keys in the leaf any position holding the key                           *)
found_positions(tree, key) == {i \in 1..Len(tree.keys) : tree.keys[i] = key}

(* BPlusTree::insert(key, doc_id), binary_search returning Ok(pos) when    *)
(* pos # 0; a document is inserted into an index once                      *)
tree_insert(key, doc_id, pos) ==
  /\ up
  /\ indexes["users_email"].present
  /\ \A i \in 1..Len(indexes["users_email"].keys) :
       indexes["users_email"].document_ids[i] # doc_id
  /\ LET tree == indexes["users_email"]
         found == found_positions(tree, key)
         at == IF found # {} THEN pos
               ELSE Cardinality({i \in 1..Len(tree.keys) : tree.keys[i] < key}) + 1
     IN /\ (IF found # {} THEN pos \in found ELSE pos = 0)
        /\ indexes' = IF tree.unique /\ found # {}
                      THEN indexes
                      ELSE [indexes EXCEPT !["users_email"] =
                              [tree EXCEPT !.keys = InsertAt(@, at, key),
                                           !.document_ids = InsertAt(@, at, doc_id)]]
  /\ UNCHANGED <<up, epoch, data, dataSynced, wal, walSynced, next_tx_id, active, held,
                 okCommits, errCommits, rolledBack, wroteCommit, begun, clones, expected,
                 tmp_files, idx_files, last_id, disk_last_id, indexErrors, changes, clean>>
  /\ UNCHANGED <<btvars, mdvars, thvars>>

(* BPlusTree::delete(key, doc_id), binary_search returning Ok(pos) when    *)
(* pos # 0: the entry at pos is removed when its document id is doc_id;    *)
(* the call is counted in deletes                                          *)
tree_delete(key, doc_id, pos) ==
  /\ up
  /\ indexes["users_email"].present
  /\ deletes < MaxDeletes
  /\ deletes' = deletes + 1
  /\ LET tree == indexes["users_email"]
         found == found_positions(tree, key)
     IN /\ (IF found # {} THEN pos \in found ELSE pos = 0)
        /\ indexes' = IF pos # 0 /\ tree.document_ids[pos] = doc_id
                      THEN [indexes EXCEPT !["users_email"] =
                              [tree EXCEPT !.keys = RemoveAt(@, pos),
                                           !.document_ids = RemoveAt(@, pos)]]
                      ELSE indexes
  /\ UNCHANGED <<up, epoch, data, dataSynced, wal, walSynced, next_tx_id, active, held,
                 okCommits, errCommits, rolledBack, wroteCommit, begun, clones, expected,
                 tmp_files, idx_files, last_id, disk_last_id, indexErrors, changes, clean>>
  /\ UNCHANGED <<root, num_keys, tree_unique, stored, result, mdvars, thvars>>

NextIndexTree ==
  \/ \E u \in BOOLEAN : create_index("users_email", u)
  \/ \E k \in Keys, d \in 1..MaxIndexDocs, pos \in 0..MaxIndexDocs : tree_insert(k, d, pos)
  \/ \E k \in Keys, d \in 1..MaxIndexDocs, pos \in 0..MaxIndexDocs : tree_delete(k, d, pos)

(* the index specification: one BPlusTree, unique or not, with inserts and *)
(* deletes                                                                 *)
SpecIndexTree == Init /\ [][NextIndexTree]_vars

(* ------------------------- drop and create again ----------------------- *)
(* CollectionCore::new(users) when the storage engine has no such          *)
(* collection: create_collection inserts a CollectionMeta with last_id 0   *)
(* and flushes the metadata; the handle gets a new _id index               *)
collection_new_created ==
  /\ up
  /\ ~collections[Users].present
  /\ LET r == flush_metadata([collections EXCEPT ![Users] =
                                [present |-> TRUE, data_offset |-> 0, index_offset |-> 0]],
                             file_len, blocks)
     IN collections' = r.collections /\ file_len' = r.file_len /\ blocks' = r.blocks
  /\ last_id' = 0
  /\ indexes' = CollectionCore_new(Users)
  /\ UNCHANGED <<up, epoch, data, dataSynced, wal, walSynced, next_tx_id, active, held,
                 okCommits, errCommits, rolledBack, wroteCommit, begun, clones, clean,
                 expected, tmp_files, idx_files, disk_last_id, indexErrors, changes>>
  /\ UNCHANGED <<btvars, thvars, document_catalog>>

(* CollectionCore::insert_one on the handle of users, the record written   *)
(* with write_data at the end of the file                                  *)
stored_insert_one(key, v) ==
  /\ up
  /\ collections[Users].present
  /\ last_id < MaxAutoId
  /\ Len(data) < MaxData
  /\ Len(blocks) = Len(data)
  /\ LET doc_id == last_id + 1
         r1 == BPlusTree_insert(indexes[IdIndexName(Users)], doc_id, doc_id)
     IN /\ r1.ok
        /\ last_id' = doc_id
        /\ indexes' = [indexes EXCEPT ![IdIndexName(Users)] = r1.tree]
        /\ data' = Append(data, [coll |-> Users, id |-> doc_id, val |-> v,
                                 tomb |-> FALSE, src |-> NoUid, email |-> key])
        /\ blocks' = Append(blocks, [offset |-> file_len, len |-> 4 + DocLen, intact |-> TRUE])
        /\ file_len' = file_len + 4 + DocLen
  /\ UNCHANGED <<up, epoch, dataSynced, wal, walSynced, next_tx_id, active, held,
                 okCommits, errCommits, rolledBack, wroteCommit, begun, clones, clean,
                 expected, tmp_files, idx_files, disk_last_id, indexErrors, changes>>
  /\ UNCHANGED <<btvars, thvars, collections, document_catalog>>

(* the records the loop of scan_documents reads: it starts at data_offset  *)
(* and goes from block to block until read_data fails                      *)
scan_reads(bs, off) ==
  {i \in 1..Len(bs) :
     \E j \in 1..i :
       /\ bs[j].offset = off
       /\ \A k \in j..i : bs[k].intact
       /\ \A k \in j..(i - 1) : bs[k].offset + bs[k].len = bs[k + 1].offset}

(* find({}) of a handle of c: filter_documents over scan_documents, the    *)
(* latest record of each _id among the records read that carry             *)
(* _collection = c, tombstones left out                                    *)
scan_find(f, bs, off, c) ==
  LET of_id(d) == {i \in scan_reads(bs, off) : f[i].coll = c /\ f[i].id = d}
  IN {f[SetMax(of_id(d))] : d \in {x \in AllIds : of_id(x) # {} /\ ~f[SetMax(of_id(x))].tomb}}

NextDrop ==
  \/ collection_new_created
  \/ \E k \in Keys, v \in Vals : stored_insert_one(k, v)
  \/ drop_collection(Users)

(* the drop specification: the collection users created, written, dropped  *)
(* and created again on one open database                                  *)
SpecDrop == Init /\ [][NextDrop]_vars

(* ---------------------------- BPlusTreeFull ---------------------------- *)
(* btree.rs: a node is a leaf with keys and values or an internal node     *)
(* with separator keys and children.  IndexKey is Int here, ordered as     *)
(* the integers.  None is 0.                                               *)
BKeys == IF tree_unique THEN 1..MaxKey ELSE 1..MaxDupKey

MAX_KEYS == BTREE_ORDER - 1

Leaf(keys, values) == [leaf |-> TRUE, keys |-> keys, values |-> values, children |-> <<>>]

Internal(keys, children) ==
  [leaf |-> FALSE, keys |-> keys, values |-> <<>>, children |-> children]

(* keys.binary_search(key) on a sorted Vec, 0-based: Ok(p) with p any      *)
(* position that holds key (first = TRUE: the lowest, else the highest),   *)
(* or Err(p) with p the number of keys below key                           *)
bs_found(keys, key) == \E i \in 1..Len(keys) : keys[i] = key

bs_pos(keys, key, first) ==
  IF bs_found(keys, key)
  THEN LET M == {i \in 1..Len(keys) : keys[i] = key}
       IN (IF first THEN CHOOSE i \in M : \A j \in M : i <= j
                    ELSE CHOOSE i \in M : \A j \in M : j <= i) - 1
  ELSE Cardinality({i \in 1..Len(keys) : keys[i] < key})

(* the descent with Ok(pos) => pos, into the child left of the separator *)
child_index_left(keys, key, first) == bs_pos(keys, key, first)

(* the child search, insert and range_scan descend into: Ok(pos) => pos+1 *)
child_index(keys, key, first) ==
  IF bs_found(keys, key) THEN bs_pos(keys, key, first) + 1 ELSE bs_pos(keys, key, first)

RECURSIVE search_in_node(_, _, _)
search_in_node(node, key, first) ==
  IF node.leaf
  THEN IF bs_found(node.keys, key)
       THEN node.values[bs_pos(node.keys, key, first) + 1]
       ELSE 0
  ELSE search_in_node(node.children[child_index(node.keys, key, first) + 1], key, first)

(* insert_into_node: the node after the insert and the SplitResult *)
RECURSIVE insert_into_node(_, _, _, _)
insert_into_node(node, key, value, first) ==
  IF node.leaf
  THEN LET pos == bs_pos(node.keys, key, first)
           keys == InsertAt(node.keys, pos + 1, key)
           values == InsertAt(node.values, pos + 1, value)
           mid == Len(keys) \div 2
       IN IF Len(keys) <= MAX_KEYS
          THEN [node |-> Leaf(keys, values), split |-> FALSE, key |-> 0,
                right |-> Leaf(<<>>, <<>>)]
          ELSE [node |-> Leaf(SubSeq(keys, 1, mid), SubSeq(values, 1, mid)),
                split |-> TRUE,
                key |-> keys[mid + 1],
                right |-> Leaf(SubSeq(keys, mid + 1, Len(keys)),
                               SubSeq(values, mid + 1, Len(values)))]
  ELSE LET idx == child_index(node.keys, key, first)
           r == insert_into_node(node.children[idx + 1], key, value, first)
           children_1 == [node.children EXCEPT ![idx + 1] = r.node]
           keys == InsertAt(node.keys, idx + 1, r.key)
           children == InsertAt(children_1, idx + 2, r.right)
           mid == Len(keys) \div 2
       IN IF ~r.split
          THEN [node |-> Internal(node.keys, children_1), split |-> FALSE, key |-> 0,
                right |-> Leaf(<<>>, <<>>)]
          ELSE IF Len(keys) <= MAX_KEYS
          THEN [node |-> Internal(keys, children), split |-> FALSE, key |-> 0,
                right |-> Leaf(<<>>, <<>>)]
          ELSE [node |-> Internal(SubSeq(keys, 1, mid), SubSeq(children, 1, mid + 1)),
                split |-> TRUE,
                key |-> keys[mid + 1],
                right |-> Internal(SubSeq(keys, mid + 2, Len(keys)),
                                   SubSeq(children, mid + 2, Len(children)))]

(* the loop of a leaf in range_scan_node from position i on *)
RECURSIVE range_scan_leaf(_, _, _, _, _, _)
range_scan_leaf(node, i, start, end, inclusive_start, inclusive_end) ==
  IF i > Len(node.keys) THEN <<>>
  ELSE IF node.keys[i] < start \/ (~inclusive_start /\ node.keys[i] = start)
  THEN range_scan_leaf(node, i + 1, start, end, inclusive_start, inclusive_end)
  ELSE IF node.keys[i] > end \/ (~inclusive_end /\ node.keys[i] = end)
  THEN <<>>
  ELSE <<node.values[i]>>
       \o range_scan_leaf(node, i + 1, start, end, inclusive_start, inclusive_end)

(* range_scan_node; range_scan_children is the loop over the children of   *)
(* an internal node from child i (0-based) on                              *)
RECURSIVE range_scan_node(_, _, _, _, _, _)
RECURSIVE range_scan_children(_, _, _, _, _, _, _)
range_scan_node(node, start, end, inclusive_start, inclusive_end, first) ==
  IF node.leaf
  THEN range_scan_leaf(node, 1, start, end, inclusive_start, inclusive_end)
  ELSE range_scan_children(node, child_index(node.keys, start, first), start, end,
                           inclusive_start, inclusive_end, first)

range_scan_children(node, i, start, end, inclusive_start, inclusive_end, first) ==
  IF i >= Len(node.children) THEN <<>>
  ELSE IF i > 0 /\ node.keys[i] > end
  THEN <<>>
  ELSE range_scan_node(node.children[i + 1], start, end, inclusive_start, inclusive_end,
                       first)
       \o range_scan_children(node, i + 1, start, end, inclusive_start, inclusive_end,
                              first)

(* delete_from_node: the node after the delete, whether a key was removed  *)
(* and the value that went with it                                         *)
RECURSIVE delete_from_node(_, _, _)
delete_from_node(node, key, first) ==
  IF node.leaf
  THEN IF bs_found(node.keys, key)
       THEN LET idx == bs_pos(node.keys, key, first)
            IN [node |-> Leaf(RemoveAt(node.keys, idx + 1), RemoveAt(node.values, idx + 1)),
                deleted |-> TRUE, value |-> node.values[idx + 1]]
       ELSE [node |-> node, deleted |-> FALSE, value |-> 0]
  ELSE LET idx == bs_pos(node.keys, key, first)
           r == delete_from_node(node.children[idx + 1], key, first)
       IN [node |-> Internal(node.keys, [node.children EXCEPT ![idx + 1] = r.node]),
           deleted |-> r.deleted, value |-> r.value]

(* the keys of the leaves, left to right *)
RECURSIVE leaf_keys(_)
leaf_keys(node) ==
  IF node.leaf THEN node.keys
  ELSE SeqConcat([i \in 1..Len(node.children) |-> leaf_keys(node.children[i])])

RECURSIVE height(_)
height(node) == IF node.leaf THEN 1 ELSE 1 + height(node.children[1])

(* the key stored with document id d *)
KeyOf(d) == CHOOSE k \in 1..MaxKey : <<k, d>> \in stored

(* the stored ids whose key lies in the interval *)
InInterval(start, end, inclusive_start, inclusive_end) ==
  {p[2] : p \in {x \in stored : /\ (x[1] > start \/ (inclusive_start /\ x[1] = start))
                                /\ (x[1] < end \/ (inclusive_end /\ x[1] = end))}}

(* the id the caller passes with the next insert *)
NextDocId == IF stored = {} THEN 1 ELSE SetMax({p[2] : p \in stored}) + 1

(* BPlusTreeFull::new(name, field, u) *)
BPlusTreeFull_new(u) ==
  /\ stored = {}
  /\ deletes = 0
  /\ tree_unique # u
  /\ tree_unique' = u
  /\ root' = Leaf(<<>>, <<>>)
  /\ num_keys' = 0
  /\ result' = "none"
  /\ UNCHANGED <<stored, deletes>>
  /\ UNCHANGED <<dbvars, mdvars, thvars>>

(* BPlusTreeFull::insert without the unique constraint check *)
BPlusTreeFull_insert_unchecked(key, doc_id, first) ==
  /\ doc_id <= MaxBTreeInserts
  /\ LET r == insert_into_node(root, key, doc_id, first)
     IN root' = IF r.split THEN Internal(<<r.key>>, <<r.node, r.right>>) ELSE r.node
  /\ num_keys' = num_keys + 1
  /\ stored' = stored \cup {<<key, doc_id>>}
  /\ result' = "Ok"
  /\ UNCHANGED <<tree_unique, deletes>>
  /\ UNCHANGED <<dbvars, mdvars, thvars>>

(* BPlusTreeFull::insert(key, doc_id): IndexError, before anything is      *)
(* changed, on a key that search finds in a unique tree; else the insert,  *)
(* a new root when the old one split                                       *)
BPlusTreeFull_insert(key, doc_id, first) ==
  /\ doc_id <= MaxBTreeInserts
  /\ IF tree_unique /\ search_in_node(root, key, first) # 0
     THEN /\ result' = "IndexError"
          /\ UNCHANGED <<root, num_keys, stored>>
     ELSE /\ LET r == insert_into_node(root, key, doc_id, first)
             IN root' = IF r.split THEN Internal(<<r.key>>, <<r.node, r.right>>) ELSE r.node
          /\ num_keys' = num_keys + 1
          /\ stored' = stored \cup {<<key, doc_id>>}
          /\ result' = "Ok"
  /\ UNCHANGED <<tree_unique, deletes>>
  /\ UNCHANGED <<dbvars, mdvars, thvars>>

(* BPlusTreeFull::delete(key) *)
BPlusTreeFull_delete(key, first) ==
  /\ deletes < MaxDeletes
  /\ deletes' = deletes + 1
  /\ LET r == delete_from_node(root, key, first)
     IN /\ root' = r.node
        /\ num_keys' = IF r.deleted THEN num_keys - 1 ELSE num_keys
        /\ stored' = IF r.deleted THEN stored \ {<<key, r.value>>} ELSE stored
        /\ result' = IF r.deleted THEN "true" ELSE "false"
  /\ UNCHANGED tree_unique
  /\ UNCHANGED <<dbvars, mdvars, thvars>>

NextBTree ==
  \/ \E u \in BOOLEAN : BPlusTreeFull_new(u)
  \/ \E key \in BKeys, first \in BOOLEAN : BPlusTreeFull_insert(key, NextDocId, first)
  \/ \E key \in BKeys, first \in BOOLEAN : BPlusTreeFull_delete(key, first)

(* the B+ tree specification: one BPlusTreeFull, any inserts and deletes *)
SpecBTree == Init /\ [][NextBTree]_vars

(* ------------------------------ query planner -------------------------- *)
(* Names are sequences of pieces: "users_id" is <<"users", "_", "id">>,    *)
(* the field "_id" is <<"_", "id">>.  The fields a query or an index may   *)
(* name, and the logical operators of a query root                         *)
Fields == {<<"id">>, <<"_", "id">>, <<"name">>, <<"user", "_", "name">>}

LogicalOps == {<<"$and">>, <<"$or">>, <<"$nor">>}

(* a query root: a map from at most MaxQueryKeys keys to values; a field    *)
(* maps to a scalar, to an object with range operators ($gt, $gte, $lt,    *)
(* $lte) or to an object with other operators, a logical operator to a     *)
(* list                                                                    *)
QueryRoots ==
  UNION {[ks -> {"scalar", "range", "ops", "list"}] :
           ks \in {x \in SUBSET (Fields \cup LogicalOps) :
                     Cardinality(x) \in 1..MaxQueryKeys}}

PlannerQueries ==
  {q \in QueryRoots : \A k \in DOMAIN q : (q[k] = "list") <=> (k \in LogicalOps)}

(* str::starts_with('$') on a key *)
starts_with_dollar(key) == key[1] \in {"$and", "$or", "$nor"}

(* format!("{}_{}", collection, field), the name create_index gives *)
index_name_of(field) == <<Users, "_">> \o field

(* idx.ends_with(&format!("_{}", field)) *)
ends_with(idx, field) ==
  LET suffix == <<"_">> \o field
  IN /\ Len(idx) >= Len(suffix)
     /\ SubSeq(idx, Len(idx) - Len(suffix) + 1, Len(idx)) = suffix

(* IndexManager::list_indexes: the names, sorted; SortedNames is the byte  *)
(* order of the names a handle of users can hold                           *)
SortedNames ==
  <<index_name_of(<<"_", "id">>), index_name_of(<<"id">>), index_name_of(<<"name">>),
    index_name_of(<<"user", "_", "name">>)>>

list_indexes(indexes_by_name) ==
  SelectSeq(SortedNames, LAMBDA n : \E r \in indexes_by_name : r.name = n)

(* QueryPlanner::find_index_for_field: the first name that ends with       *)
(* _<field>, <<>> for None                                                 *)
find_index_for_field(field, names) ==
  LET hits == SelectSeq(names, LAMBDA n : ends_with(n, field))
  IN IF hits = <<>> THEN <<>> ELSE Head(hits)

(* QueryPlanner::analyze_range_query over the entries of the root in the   *)
(* iteration order of the map: some = FALSE stands for None                *)
RECURSIVE analyze_range_query(_, _, _)
analyze_range_query(q, order, names) ==
  IF order = <<>>
  THEN [some |-> FALSE, plan |-> CollectionScan]
  ELSE IF starts_with_dollar(Head(order))
  THEN analyze_range_query(q, Tail(order), names)
  ELSE IF q[Head(order)] = "range"
  THEN IF find_index_for_field(Head(order), names) = <<>>
       THEN [some |-> FALSE, plan |-> CollectionScan]
       ELSE [some |-> TRUE,
             plan |-> [kind |-> "IndexRangeScan",
                       index_name |-> find_index_for_field(Head(order), names),
                       field |-> Head(order)]]
  ELSE analyze_range_query(q, Tail(order), names)

(* QueryPlanner::analyze_query(query_json, available_indexes): the plan,   *)
(* CollectionScan standing for None                                        *)
QueryPlanner_analyze_query(q, order, names) ==
  IF analyze_range_query(q, order, names).some
  THEN analyze_range_query(q, order, names).plan
  ELSE IF \E k \in DOMAIN q : starts_with_dollar(k)
  THEN CollectionScan
  ELSE IF q[Head(order)] \in {"range", "ops"}
  THEN CollectionScan
  ELSE IF find_index_for_field(Head(order), names) = <<>>
  THEN CollectionScan
  ELSE [kind |-> "IndexScan",
        index_name |-> find_index_for_field(Head(order), names),
        field |-> Head(order)]

(* CollectionCore::create_index(field, unique) on the handle: Err when the *)
(* handle holds an index of that name                                      *)
planner_create_index(field) ==
  /\ \A r \in available_indexes : r.name # index_name_of(field)
  /\ available_indexes' = available_indexes
                            \cup {[name |-> index_name_of(field), field |-> field]}
  /\ UNCHANGED <<planned_query, query_plan>>
  /\ UNCHANGED <<dbvars, btvars, mdvars, tx_result, tvars, hvars>>

(* the planner called as CollectionCore::find calls it, the entries of the *)
(* root iterated in the given order                                        *)
planner_analyze(q, order) ==
  /\ planned_query' = q
  /\ query_plan' = QueryPlanner_analyze_query(q, order, list_indexes(available_indexes))
  /\ UNCHANGED available_indexes
  /\ UNCHANGED <<dbvars, btvars, mdvars, tx_result, tvars, hvars>>

NextPlanner ==
  \/ \E f \in Fields : planner_create_index(f)
  \/ \E q \in PlannerQueries : \E order \in Orders(DOMAIN q) : planner_analyze(q, order)

(* the planner specification: indexes created on a handle and queries      *)
(* planned against them                                                    *)
SpecPlanner == Init /\ [][NextPlanner]_vars

(* ------------------------------ claims --------------------------------- *)
(* C1: when commit_transaction returned an error, whichever step failed,   *)
(* no effect of that transaction is durable: in every later process        *)
(* lifetime no _id has a record of that transaction as its latest version. *)
C1_FailedCommitNotDurable ==
  up => \A u \in errCommits : \A d \in DocIds :
          u[1] < epoch /\ LatestIdx(data, Users, d) # 0
            => data[LatestIdx(data, Users, d)].src # u

(* C2: when commit_transaction returned Ok, every _id the transaction      *)
(* touched is observed, in this and every later process lifetime, with the *)
(* value that applying its operations in order leaves, as long as nothing  *)
(* wrote that _id afterwards.                                              *)
C2_CommittedIsDurable ==
  up => \A d \in DocIds :
          expected[d].set =>
            /\ Live(data, Users, d) = ~expected[d].tomb
            /\ (Live(data, Users, d) => <<d, expected[d].val>> \in View(data, Users))

(* C3: every record that a commit or a recovery put in the data file comes *)
(* from a transaction that wrote its COMMIT frame.                         *)
C3_OnlyCommittedReplayed ==
  \A i \in 1..Len(data) : data[i].src = NoUid \/ data[i].src \in wroteCommit

(* C4: when the WAL holds two committed transactions, all frames of T1     *)
(* before all frames of T2, and both write the same _id, the latest record *)
(* of that _id after recovery is the one T2 wrote.                         *)
C4_ReplayInWalOrder ==
  [][(~up /\ up') =>
       \A t1, t2 \in WalCommitted(wal) : \A d \in DocIds :
         LET ops1 == {i \in 1..Len(wal) : wal[i].transaction_id = t1
                                           /\ wal[i].entry_type = "Operation"
                                           /\ wal[i].data.doc_id = d}
             ops2 == {i \in 1..Len(wal) : wal[i].transaction_id = t2
                                           /\ wal[i].entry_type = "Operation"
                                           /\ wal[i].data.doc_id = d}
         IN (/\ t1 # t2
             /\ ops1 # {}
             /\ ops2 # {}
             /\ \A i, j \in 1..Len(wal) :
                  wal[i].transaction_id = t1 /\ wal[j].transaction_id = t2 => i < j)
            => /\ LatestIdx(data', Users, d) # 0
               /\ data'[LatestIdx(data', Users, d)]
                    = OpRecord(wal[SetMax(ops2)].data, wal[SetMax(ops2)].uid)]_vars

(* C5: after recover_from_wal returned, the WAL file is empty, whatever it *)
(* contained.                                                              *)
C5_WalEmptyAfterRecovery ==
  [][(~up /\ up') => wal' = <<>>]_vars

(* C6: an open after a close, replaying committed OPERATION frames against *)
(* a data file that already holds the record of every one of them, leaves  *)
(* the live (_id, value) pairs of the collection as they were before the   *)
(* close.                                                                  *)
C6_ReplayIdempotent ==
  [][(/\ ~up
      /\ up'
      /\ clean
      /\ \A t \in WalCommitted(wal) : \A i \in 1..Len(wal) :
           wal[i].transaction_id = t /\ wal[i].entry_type = "Operation"
             => \E j \in 1..Len(data) : data[j] = OpRecord(wal[i].data, wal[i].uid))
     => View(data', Users) = View(data, Users)]_vars

(* C7: after rollback_transaction returned Ok, nothing of the rolled back  *)
(* transaction is in the data file, now or after any later commit, close   *)
(* or reopen.                                                              *)
C7_RolledBackNeverVisible ==
  \A i \in 1..Len(data) : data[i].src \notin rolledBack

(* C8: a transaction is committed at most once: the commit of a            *)
(* transaction whose commit already returned Ok appends nothing to the WAL *)
(* and nothing to the data file and does not return Ok.                    *)
C8_CommittedAtMostOnce ==
  [][\A id \in TxIds :
       (/\ up
        /\ active[id] # NoTx
        /\ active[id].uid \in okCommits
        /\ active'[id] = NoTx
        /\ up'
        /\ ~(Len(wal') = Len(wal) + 1 /\ wal'[Len(wal')].entry_type = "Abort"))
       => wal' = wal /\ data' = data]_vars

(* C9: a transaction that carries an Insert index change whose key is     *)
(* already in a unique index made with create_index, put there by an       *)
(* earlier insert, is not committed by commit_transaction_with_indexes and *)
(* none of its records reaches the data file.                              *)
C9_DuplicateKeyRejected ==
  [][\A id \in TxIds :
       (/\ up
        /\ active[id] # NoTx
        /\ \E n \in IndexNames \ {IdIndexName(Users)} :
             /\ indexes[n].present
             /\ indexes[n].unique
             /\ \E i \in 1..Len(active[id].index_changes[n]) :
                  /\ active[id].index_changes[n][i].operation = "Insert"
                  /\ search(indexes[n], active[id].index_changes[n][i].key) # 0
                  /\ \A j \in 1..(i - 1) :
                       active[id].index_changes[n][j].key
                         # active[id].index_changes[n][i].key)
       => /\ active[id].uid \notin okCommits'
          /\ \A i \in 1..Len(data') : data'[i].src # active[id].uid]_vars

C11_NoTempFileAfterError ==
  [][\A id \in TxIds :
       (/\ active[id] # NoTx
        /\ active[id].uid \notin (errCommits \cup indexErrors)
        /\ active[id].uid \in (errCommits' \cup indexErrors'))
       => \A n \in IndexNames :
            tmp_files'[n].present => tmp_files'[n] = tmp_files[n]]_vars

(* C12: compaction keeps the live view: the live (_id, latest value)       *)
(* pairs of the collection are the same before and after compact, for      *)
(* histories longer than the chunk size too.                               *)
C12_CompactionKeepsView ==
  [][(up /\ up' /\ \E n \in 1..MaxChunk, o \in Orders(AllIds) : compact_with_config(n, o))
       => {<<r.id, r.val, r.email>> : r \in ViewAll(data', Users)}
            = {<<r.id, r.val, r.email>> : r \in ViewAll(data, Users)}]_vars

(* C13: a block written by write_data stays readable with its bytes at its *)
(* offset after any later write_data, create_collection, drop_collection   *)
(* and flush: no rewrite of the metadata overwrites or truncates it.       *)
C13_BlocksStayIntact ==
  \A i \in 1..Len(blocks) : blocks[i].intact

(* C14: after any sequence of create_collection, drop_collection and       *)
(* flush every collection's data_offset is the fixed data start, header    *)
(* size plus reserved metadata size.                                       *)
C14_DataOffsetIsFixed ==
  \A n \in CollNames : collections[n].present => collections[n].data_offset = DATA_START_OFFSET

(* C15: for every query with one equality or range operator on an indexed *)
(* field, find returns exactly the live documents that match, the set a    *)
(* collection scan returns.                                                *)
C15_IndexFindEqualsScan ==
  up => \A q \in Queries :
          find(indexes, data, Users, q) = find_by_scan(data, Users, q)

(* C16: the entries of every unique index of the handle are exactly the    *)
(* (key, id) pairs of the live documents that have the field, each id      *)
(* once.                                                                   *)
C16_UniqueIndexIsBijection ==
  up => /\ Entries(indexes["users_id"]) = {<<doc.id, doc.id>> : doc \in ViewAll(data, Users)}
        /\ Len(indexes["users_id"].keys) = Cardinality(Entries(indexes["users_id"]))
        /\ (indexes["users_email"].present /\ indexes["users_email"].unique)
             => /\ Entries(indexes["users_email"])
                     = {<<doc.email, doc.id>> : doc \in {x \in ViewAll(data, Users) : x.email # 0}}
                /\ Len(indexes["users_email"].keys)
                     = Cardinality(Entries(indexes["users_email"]))

(* C17: an insert_one that fails on a unique index leaves last_id, every   *)
(* index and the data file as they were.                                   *)
C17_FailedInsertChangesNothing ==
  [][\A k \in Keys, v \in Vals :
       (/\ insert_one(Users, k, v)
        /\ indexes["users_email"].present
        /\ indexes["users_email"].unique
        /\ search(indexes["users_email"], k) # 0)
       => /\ last_id' = last_id
          /\ indexes' = indexes
          /\ data' = data]_vars

(* C18: range_scan returns exactly the ids whose key lies in the          *)
(* interval, each once, in ascending key order, with duplicate keys and    *)
(* split trees included; start = end with both bounds inclusive returns    *)
(* every id stored under that key.                                         *)
C18_RangeScanExact ==
  \A start, end \in BKeys : \A inclusive_start, inclusive_end, first \in BOOLEAN :
    LET res == range_scan_node(root, start, end, inclusive_start, inclusive_end, first)
    IN /\ {res[i] : i \in 1..Len(res)}
            = InInterval(start, end, inclusive_start, inclusive_end)
       /\ Len(res) = Cardinality(InInterval(start, end, inclusive_start, inclusive_end))
       /\ \A i, j \in 1..Len(res) : i < j => KeyOf(res[i]) <= KeyOf(res[j])

(* C19: delete(k) of a stored key k returns true, takes one from size,     *)
(* makes search(k) return None and leaves every other key found with its   *)
(* id.                                                                     *)
C19_DeleteRemovesStoredKey ==
  [][\A key \in BKeys, first \in BOOLEAN :
       (/\ BPlusTreeFull_delete(key, first)
        /\ tree_unique
        /\ \E p \in stored : p[1] = key)
       => /\ delete_from_node(root, key, first).deleted
          /\ num_keys' = num_keys - 1
          /\ \A f \in BOOLEAN : search_in_node(root', key, f) = 0
          /\ \A p \in stored : \A f \in BOOLEAN :
               p[1] # key => search_in_node(root', p[1], f) = p[2]]_vars

(* C20: after any inserts of distinct keys, search finds every inserted    *)
(* key with its id, and the keys of the leaves read left to right are in   *)
(* ascending order.                                                        *)
C20_InsertedKeysFoundInOrder ==
  (tree_unique /\ deletes = 0) =>
    /\ \A p \in stored : \A f \in BOOLEAN : search_in_node(root, p[1], f) = p[2]
    /\ Len(leaf_keys(root)) = Cardinality(stored)
    /\ \A i, j \in 1..Len(leaf_keys(root)) :
         i < j => leaf_keys(root)[i] < leaf_keys(root)[j]

(* a tree of height 3: leaves and internal nodes have split *)
C20_Witness ==
  /\ tree_unique
  /\ deletes = 0
  /\ height(root) >= 3
  /\ Cardinality(stored) >= 5

(* C21: insert of a key that a unique tree holds returns IndexError and   *)
(* leaves the tree as it was: size() and the id search returns for the key *)
(* are those of before the call.                                           *)
C21_DuplicateInsertChangesNothing ==
  [][\A key \in BKeys, first \in BOOLEAN :
       (/\ BPlusTreeFull_insert(key, NextDocId, first)
        /\ tree_unique
        /\ \E p \in stored : p[1] = key)
       => /\ result' = "IndexError"
          /\ num_keys' = num_keys
          /\ root' = root
          /\ \A f \in BOOLEAN :
               /\ search_in_node(root', key, f) = search_in_node(root, key, f)
               /\ <<key, search_in_node(root', key, f)>> \in stored]_vars

(* a duplicate insert into a unique tree that has split was rejected *)
C21_Witness ==
  /\ tree_unique
  /\ result = "IndexError"
  /\ height(root) >= 2
  /\ num_keys >= 3

(* C23: add_operation, add_index_change and add_metadata_change on a      *)
(* Transaction whose state is Committed or Aborted return                  *)
(* TransactionCommitted and leave the three buffers as they were.          *)
C23_AddAfterEndRejected ==
  [][(/\ held.state \in {"Committed", "Aborted"}
      /\ \/ \E op \in Operation : held_add_operation(op)
         \/ \E n \in IndexNames, c \in IndexChange : held_add_index_change(n, c)
         \/ \E mc \in MetadataChange : held_add_metadata_change(mc))
     => /\ tx_result' = "TransactionCommitted"
        /\ held'.operations = held.operations
        /\ held'.index_changes = held.index_changes
        /\ held'.metadata_changes = held.metadata_changes]_vars

(* an add call on a Committed Transaction with filled buffers was rejected *)
C23_Witness ==
  /\ held.state = "Committed"
  /\ tx_result = "TransactionCommitted"
  /\ held.operations # <<>>
  /\ held.metadata_changes # <<>>
  /\ held.index_changes # NoChanges

(* C22: begin_transaction hands out the values 1, 2, 3, ... of one        *)
(* counter: no id is returned twice, also when two threads are inside      *)
(* begin_transaction at once, and the id a thread was returned is that of  *)
(* an Active transaction of the registry.                                  *)
C22_TransactionIdsUnique ==
  /\ \A i, j \in 1..Len(returned) : i # j => returned[i] # returned[j]
  /\ {returned[i] : i \in 1..Len(returned)}
       \cup {th_tx[t].id : t \in {x \in Threads : pc[x] = "begin_insert"}}
       = 1..(next_tx_id - 1)
  /\ \A t \in Threads :
       pc[t] = "ready" => /\ active[th_tx[t].id].id = th_tx[t].id
                          /\ is_active(active[th_tx[t].id])

(* two threads were inside begin_transaction at once: the second id was    *)
(* returned first                                                          *)
C22_Witness ==
  /\ returned = <<2, 1>>
  /\ \A t \in Threads : pc[t] = "ready"

(* C24: when two threads commit different transactions at the same time,  *)
(* the frames of the two do not interleave in the WAL: between two frames  *)
(* of one transaction there is no frame of another.                        *)
C24_WalFramesNotInterleaved ==
  \A i, k \in 1..Len(wal) :
    (i < k /\ wal[i].uid = wal[k].uid) => \A j \in i..k : wal[j].uid = wal[i].uid

(* one thread holds the storage lock and has written frames of its        *)
(* transaction while the other thread, inside commit_transaction too,      *)
(* waits for the lock                                                      *)
C24_Witness ==
  \E t, u \in Threads :
    /\ pc[t] = "commit_wal"
    /\ th_k[t] >= 2
    /\ storage_lock = t
    /\ pc[u] = "commit_lock"
    /\ th_tx[u].operations # <<>>

(* C29: in the WAL every COMMIT frame and every ABORT frame comes after a  *)
(* BEGIN frame with the same transaction id, the frames of an ended        *)
(* transaction being BEGIN, OPERATION or INDEX_CHANGE frames, then one     *)
(* COMMIT or ABORT.                                                        *)
C29_EndFrameFollowsBegin ==
  \A i \in 1..Len(wal) :
    wal[i].entry_type \in {"Commit", "Abort"}
      => \E j \in 1..(i - 1) : /\ wal[j].entry_type = "Begin"
                               /\ wal[j].transaction_id = wal[i].transaction_id

(* C30: in a commit the COMMIT frame is in the WAL and the WAL is fsynced  *)
(* before the first record of the transaction reaches the data file; the   *)
(* transaction is marked Committed only after the data file was fsynced;   *)
(* the commit does two fsyncs, of the WAL and then of the data file.       *)
C30_CommitStepOrder ==
  /\ \A r \in 1..Len(data) :
       data[r].src # NoUid
         => \E i \in 1..walSynced : wal[i].entry_type = "Commit" /\ wal[i].uid = data[r].src
  /\ \A t \in Threads :
       th_tx[t].state = "Committed"
         => /\ fsyncs[t] = <<"wal", "data">>
            /\ \A r \in 1..Len(data) : data[r].src = th_tx[t].uid => r <= dataSynced
  /\ \A t \in Threads :
       pc[t] \in {"commit_wal", "commit_flush", "commit_apply", "commit_sync", "commit_mark"}
         => fsyncs[t] \in {<<>>, <<"wal">>, <<"wal", "data">>}

(* a commit of a transaction with an operation has returned Ok *)
C30_Witness ==
  \E t \in Threads :
    /\ pc[t] = "unlock"
    /\ th_tx[t].state = "Committed"
    /\ th_tx[t].operations # <<>>
    /\ \E r \in 1..Len(data) : data[r].src = th_tx[t].uid

(* C26: calls of two threads on one collection handle never deadlock:     *)
(* a find on an indexed field and an insert_one that run at the same time  *)
(* both return.                                                            *)
C26_CallsReturn ==
  \A t \in Threads : (hpc[t] # "idle") ~> (hpc[t] = "idle")

(* C25: after every completed write and after recovery the catalog of    *)
(* the collection maps each written _id to the place of the most recent    *)
(* record, document or tombstone, written for that id.                     *)
C25_CatalogPointsToLatest ==
  up => \A d \in AllIds :
          LatestIdx(data, Users, d) # 0 => document_catalog[d] = LatestIdx(data, Users, d)

(* C27: the id insert_one and insert_one_tx assign next, last_id + 1, is   *)
(* greater than the _id of every document of the collection in the data    *)
(* file, whatever inserts, commits, rollbacks, crashes and reopens came     *)
(* before.                                                                 *)
C27_AutoIdIsFresh ==
  up => \A i \in 1..Len(data) : data[i].coll = Users => data[i].id < last_id + 1

(* C28: update_one and delete_one on users pick the document by the       *)
(* latest record of its _id among the records of users alone: the document *)
(* matched is a live document of users, and what update_one writes is that *)
(* document with the new value, whatever orders holds under the same _id.  *)
C28_OtherCollectionIgnored ==
  [][/\ \A d \in AllIds :
          update_one(Users, d, "b")
            => /\ Live(data, Users, d)
               /\ data'[Len(data')]
                    = [data[LatestIdx(data, Users, d)] EXCEPT !.val = "b", !.src = NoUid]
     /\ \A d \in AllIds :
          delete_one(Users, d)
            => /\ Live(data, Users, d)
               /\ data'[Len(data')]
                    = [data[LatestIdx(data, Users, d)] EXCEPT !.tomb = TRUE, !.src = NoUid]
    ]_vars


(* C31: an open that replays a WAL whose committed transactions were all   *)
(* replayed already by a recovery that crashed before wal.clear() (the     *)
(* data file ends with the records of one full replay of this WAL) leaves  *)
(* the live (_id, value) pairs of the collection as the first replay left  *)
(* them.                                                                   *)
C31_RecoverTwiceSameView ==
  [][(/\ ~up
      /\ epoch' # epoch
      /\ \E r1 \in recover(wal) :
           /\ ReplayRecords(r1) # <<>>
           /\ Len(data) >= Len(ReplayRecords(r1))
           /\ SubSeq(data, Len(data) - Len(ReplayRecords(r1)) + 1, Len(data))
                = ReplayRecords(r1))
     => View(data', Users) = View(data, Users)]_vars

(* C32: after DatabaseCore::open returned Ok, every Insert of a recovered   *)
(* INDEX_CHANGE frame (a frame of a committed transaction) whose key no     *)
(* recovered frame deletes from that index is found by search, with its    *)
(* doc id, in the index of the handle db.collection(name) returns.         *)
C32_RecoveredIndexChangesVisible ==
  [][(~up /\ up') =>
       \A i \in 1..Len(wal) :
         (/\ wal[i].transaction_id \in WalCommitted(wal)
          /\ wal[i].entry_type = "IndexChange"
          /\ wal[i].ix.operation = "Insert"
          /\ ~\E j \in 1..Len(wal) :
                /\ wal[j].entry_type = "IndexChange"
                /\ wal[j].ix.operation = "Delete"
                /\ wal[j].ix.index_name = wal[i].ix.index_name
                /\ wal[j].ix.key = wal[i].ix.key)
         => /\ indexes'[wal[i].ix.index_name].present
            /\ search(indexes'[wal[i].ix.index_name], wal[i].ix.key) = wal[i].ix.doc_id]_vars

(* C33: after DatabaseCore::open returned Ok, no <base>.idx.tmp file is on  *)
(* disk, whatever temp files the crash before it left behind.              *)
C33_OpenRemovesTempFiles ==
  [][(~up /\ up') => \A n \in IndexNames : ~tmp_files'[n].present]_vars

C35_RecreatedCollectionIsEmpty ==
  [][(~collections[Users].present /\ collections'[Users].present)
       => scan_find(data', blocks', collections'[Users].data_offset, Users) = {}]_vars

(* C36: a call BPlusTree::delete(key, doc_id) on an index that holds the   *)
(* pair (key, doc_id), unique or not, leaves exactly the other pairs in    *)
(* the index and makes it one entry smaller.                               *)
C36_DeleteRemovesThePair ==
  [][\A k \in Keys, d \in 1..MaxIndexDocs, pos \in 0..MaxIndexDocs :
       (tree_delete(k, d, pos) /\ <<k, d>> \in Entries(indexes["users_email"]))
         => /\ Entries(indexes'["users_email"]) = Entries(indexes["users_email"]) \ {<<k, d>>}
            /\ Len(indexes'["users_email"].keys) = Len(indexes["users_email"].keys) - 1]_vars

(* the separator rule in the subtree of node: under child i every key is   *)
(* less than keys[i], under child i + 1 every key is at least keys[i]      *)
RECURSIVE separator_rule(_)
separator_rule(node) ==
  \/ node.leaf
  \/ /\ \A i \in 1..Len(node.keys) :
          /\ \A j \in 1..Len(leaf_keys(node.children[i])) :
               leaf_keys(node.children[i])[j] < node.keys[i]
          /\ \A j \in 1..Len(leaf_keys(node.children[i + 1])) :
               leaf_keys(node.children[i + 1])[j] >= node.keys[i]
     /\ \A i \in 1..Len(node.children) : separator_rule(node.children[i])

(* C37: after any sequence of inserts into a BPlusTreeFull, unique or not, *)
(* every internal node satisfies the separator rule.                       *)
C37_SeparatorRule == separator_rule(root)

(* C38: a call on a Transaction changes its state only from Active, to     *)
(* Committed or to Aborted: a Committed or Aborted transaction keeps its   *)
(* state under every call, and mark_committed on it fails.                 *)
C38_EndStatesAreTerminal ==
  [][held # NoTx =>
       /\ held'.state # held.state
            => held.state = "Active" /\ held'.state \in {"Committed", "Aborted"}
       /\ (held_mark_committed /\ held.state # "Active")
            => tx_result' = "TransactionCommitted"]_vars

(* C39: for a query whose root has a key $and, $or or $nor, whatever other *)
(* fields the root has and whatever indexes exist, the planner returns     *)
(* CollectionScan.                                                         *)
C39_LogicalRootIsScanned ==
  (planned_query # <<>> /\ \E k \in DOMAIN planned_query : k \in LogicalOps)
    => query_plan.kind = "CollectionScan"

(* C40: the index an IndexScan or IndexRangeScan plan names is an index of *)
(* the handle whose indexed field is the field of the plan.                *)
C40_PlanNamesIndexOfField ==
  query_plan.kind # "CollectionScan"
    => \E r \in available_indexes :
         r.name = query_plan.index_name /\ r.field = query_plan.field

====
